---- MODULE Spec2Model ----
(***************************************************************************)
(* A model of the transport core of axum-bootstrap:                        *)
(*   - TimeoutIO, the idle-timeout stream decorator (src/src/util/io.rs),  *)
(*   - TlsAcceptor / TlsStream (src/src/util/tls.rs),                      *)
(*   - the TLS accept loop and its certificate reload task                 *)
(*     (serve_tls, src/src/lib.rs),                                        *)
(*   - Server::run, serve_plantext, handle_connection and handle           *)
(*     (src/src/lib.rs).                                                   *)
(* SpecIO drives one TimeoutIO over an arbitrary wrapped stream.           *)
(* SpecStream drives one TlsAcceptor and the TlsStreams it returns through *)
(* their methods.  SpecTls drives serve_tls: the accept loop, the reload   *)
(* task, the shutdown signal and the connection tasks.  SpecRun drives     *)
(* Server::run from construction to its return, in either mode, with the   *)
(* connection tasks it spawns and the bounded drain.                       *)
(***************************************************************************)
EXTENDS Integers, Sequences, FiniteSets, TLC

\* ---------------------------------------------------------------- bounds
\* Clock values run from 0 to MaxTime.
MaxTime == 4
\* The idle timeout given to TimeoutIO::new is drawn from 1..MaxTimeout.
MaxTimeout == 2
\* Number of polls recorded on one TimeoutIO.
MaxOps == 3
\* Number of connections the TLS listener hands out.
MaxConns == 2
\* Number of requests handled on one connection, and of distinct requests.
MaxRequests == 2
\* Number of distinct errors an interceptor reports.
MaxErr == 1
\* Number of configurations built after start-up: wake-ups of the reload
\* task in SpecTls, replace_config calls in SpecStream.
MaxConfigs == 3
\* A Ready(Ok(n)) of the wrapped stream carries n in 0..MaxVal.
MaxVal == 1

VARIABLES
    \* --- TimeoutIO (io.rs:97-107) and its clock
    now,          \* tokio::time::Instant::now()
    timeout,      \* TimeoutIO.timeout
    deadline,     \* deadline of TimeoutIO.idle_future (a tokio Sleep)
    lastOp,       \* the operation polled last ("none" before the first poll)
    trace,        \* one record per poll: what inner returned, what TimeoutIO returned
    lastProgress, \* clock value of the last Ready poll (of construction before any)
    steady,       \* so far some poll was Ready at intervals shorter than the timeout
    \* --- serve_tls (lib.rs:491-555): the accept loop, the reload task, the streams
    pc,           \* where serve_tls is: "select", "drain" or "done"
    acceptor,     \* the TlsAcceptor: [config, live]; live is FALSE once dropped
    chan,         \* broadcast::channel::<Arc<ServerConfig>>(1): [pos, val]
    rxNext,       \* the position rx reads next
    ticks,        \* how many times the reload task has woken
    lastTick,     \* what its last tick did: "none", "published", "load_failed";
                  \* "ended" once the task is gone and its Sender dropped
    streams,      \* the TlsStreams returned by accept(), in order
    replaced,     \* the arguments of the replace_config calls made so far
    shutdownSent, \* a () was sent on the shutdown channel
    lastEvent,    \* what the last iteration of the accept loop did
    lastCall,     \* the last call on a TlsAcceptor or TlsStream: [stream, op, ret]
    \* --- Server::run (lib.rs:273-301) and the connection tasks it spawns
    useTls,       \* use_tls of run(): serve_tls or serve_plantext
    tasks,        \* one record per task spawned by handle_connection:
                  \* [status, why, afterError]
    acceptFailed, \* accept has returned Err in the loop
    drainDeadline, \* when timeout(GRACEFUL_SHUTDOWN_TIMEOUT, ..) fires (0 before the drain)
    result,       \* what run() returned: "none" while it has not returned
    \* --- handle (lib.rs:317-342) on one connection
    interceptor,  \* the Option<I> given to handle: "None" or "Some"
    http2,        \* the connection speaks HTTP/2 (else HTTP/1)
    conn,         \* the connection: "open" or "aborted"
    handled,      \* one record per request: [request, intercept, calls, yield, sent]
    \* --- the Server value (lib.rs:196-259) as the builder calls shape it
    server,       \* [port, tls_param, router, interceptor, idle_timeout, shutdown_rx]
    setters,      \* the builder calls made so far, in order: [call, arg]
    \* --- the shutdown channel (lib.rs:572-596) and the loops that listen to it
    signalTask,   \* the task of subscribe_shutdown_sender: "waiting", "sent", "panicked"
    userTx,       \* the caller still holds a clone of the Sender
    shutdownChan, \* broadcast::channel::<()>(1): [pos], the number of () sent
    loops,        \* one record per accept loop: [id, next, state, accepted, saw]
    \* --- the peer address of one connection (lib.rs:360-419)
    peer,         \* client_socket_addr as accept returned it: [ip, port]
    observed,     \* where the address went, in order: [by, seen]
    \* --- the Host extractor (extractor.rs:69-94)
    extracted,    \* one record per from_request_parts call: [parts, result]
    \* --- the JWT middleware (jwt.rs:285-339)
    authed        \* one record per request through jwt_auth_middleware

ioVars == <<now, timeout, deadline, lastOp, trace, lastProgress, steady>>

tlsVars == <<pc, acceptor, chan, rxNext, ticks, lastTick, streams, replaced,
             shutdownSent, lastEvent, lastCall>>

srvVars == <<useTls, tasks, acceptFailed, drainDeadline, result>>

vars == <<now, timeout, deadline, lastOp, trace, lastProgress, steady,
          pc, acceptor, chan, rxNext, ticks, lastTick, streams, replaced,
          shutdownSent, lastEvent, lastCall,
          useTls, tasks, acceptFailed, drainDeadline, result,
          interceptor, http2, conn, handled,
          server, setters,
          signalTask, userTx, shutdownChan, loops,
          peer, observed, extracted, authed>>

reqVars == <<interceptor, http2, conn, handled>>

cfgVars == <<server, setters>>

\* The variables outside the TimeoutIO, the TLS server, run() and handle.
sigVars == <<signalTask, userTx, shutdownChan, loops>>

peerVars == <<peer, observed>>

\* The variables of the helpers around the server: addresses, extractors.
utilVars == <<peerVars, extracted, authed>>

extVars == <<cfgVars, sigVars, utilVars>>

\* ---------------------------------------------------------------------
\* The Server value and its builder (lib.rs:196-259)
\* ---------------------------------------------------------------------

\* Option<TlsParam>: None, or Some(TlsParam) with its `tls` flag.
NoTlsParam == [some |-> FALSE, tls |-> FALSE]

SomeTlsParam(tls) == [some |-> TRUE, tls |-> tls]

TlsParams == {NoTlsParam} \cup {SomeTlsParam(b) : b \in BOOLEAN}

\* The values the other fields are drawn from.
Ports == {8080, 8443}

Routers == {"router_a", "router_b"}

Receivers == {"rx_a", "rx_b"}

Interceptors == {"interceptor_a", "interceptor_b"}

\* Duration::from_secs(120) of new_server, in seconds.
DEFAULT_IDLE_TIMEOUT == 120

Durations == (1..MaxTimeout) \cup {DEFAULT_IDLE_TIMEOUT}

\* new_server (lib.rs:196-205).
new_server(port, router, shutdown_rx) ==
    [port |-> port, tls_param |-> NoTlsParam, router |-> router,
     interceptor |-> "None", idle_timeout |-> DEFAULT_IDLE_TIMEOUT,
     shutdown_rx |-> shutdown_rx]

\* with_interceptor with a slip: the idle timeout falls back to the default.
with_interceptor_ResetsTimeout(self, r) ==
    [port |-> self.port, tls_param |-> self.tls_param, router |-> self.router,
     interceptor |-> r, idle_timeout |-> DEFAULT_IDLE_TIMEOUT,
     shutdown_rx |-> self.shutdown_rx]

\* with_interceptor (lib.rs:223-235): a new Server is built field by field.
with_interceptor(self, r) ==
    [port |-> self.port, tls_param |-> self.tls_param, router |-> self.router,
     interceptor |-> r, idle_timeout |-> self.idle_timeout,
     shutdown_rx |-> self.shutdown_rx]

\* with_tls_param (lib.rs:244-247).
with_tls_param(self, tls_param) == [self EXCEPT !.tls_param = tls_param]

\* with_timeout (lib.rs:256-259).
with_timeout(self, d) == [self EXCEPT !.idle_timeout = d]

\* use_tls of run() with a slip: TLS whenever a TlsParam is present.
use_tls_IfPresent(tls_param) == tls_param.some

\* use_tls of run() (lib.rs:274-277).
use_tls(tls_param) == IF tls_param.some THEN tls_param.tls ELSE FALSE

\* The specifications of the TimeoutIO, the TLS server and handle leave
\* the builder alone: the Server is the one new_server returns.
NoBuilder ==
    /\ server = new_server(8080, "router_a", "rx_a")
    /\ setters = <<>>

\* IpAddr: V4(a), a native V6(a), or the IPv4-mapped V6 ::ffff:a.
V4(a) == [v |-> 4, mapped |-> FALSE, a |-> a]

V6(a) == [v |-> 6, mapped |-> FALSE, a |-> a]

V6Mapped(a) == [v |-> 6, mapped |-> TRUE, a |-> a]

\* No connection's address is being followed.
NoPeer ==
    /\ peer = [ip |-> V6(1), port |-> 1]
    /\ observed = <<>>

\* No request has been given to the Host extractor.
NoHost == extracted = <<>>

\* No request has gone through the JWT middleware.
NoJwt == authed = <<>>

NoUtil == NoPeer /\ NoHost /\ NoJwt

\* No shutdown channel has been made and no loop listens to one.
NoSignal ==
    /\ signalTask = "waiting"
    /\ userTx = FALSE
    /\ shutdownChan = [pos |-> 0]
    /\ loops = <<>>

\* No request is being handled.
NoRequests ==
    /\ interceptor = "None"
    /\ http2 = FALSE
    /\ conn = "open"
    /\ handled = <<>>

\* SpecIO drives a TimeoutIO alone: no TLS server is running.
NoTlsServer ==
    /\ useTls = FALSE
    /\ tasks = <<>>
    /\ acceptFailed = FALSE
    /\ drainDeadline = 0
    /\ result = "none"
    /\ pc = "done"
    /\ acceptor = [config |-> 0, live |-> FALSE]
    /\ chan = [pos |-> 0, val |-> 0]
    /\ rxNext = 0
    /\ ticks = 0
    /\ lastTick = "none"
    /\ streams = <<>>
    /\ replaced = <<>>
    /\ shutdownSent = FALSE
    /\ lastEvent = "none"
    /\ lastCall = [stream |-> 0, op |-> "none", ret |-> [ready |-> FALSE, err |-> "", val |-> 0]]

\* SpecTls drives the TLS server: the clock and the TimeoutIO of SpecIO stand still.
NoTimeoutIO ==
    /\ now = 0
    /\ timeout = 1
    /\ deadline = 1
    /\ lastOp = "none"
    /\ trace = <<>>
    /\ lastProgress = 0
    /\ steady = TRUE

\* ------------------------------------------------------------ poll values
\* Poll<io::Result<_>>: Pending, Ready(Ok(val)) or Ready(Err(err)).
Pending == [ready |-> FALSE, err |-> "", val |-> 0]

Ok(v) == [ready |-> TRUE, err |-> "", val |-> v]

Err(e) == [ready |-> TRUE, err |-> e, val |-> 0]

\* What the wrapped stream T can answer to a poll.
InnerResults == {Pending, Err("ConnectionReset")} \cup {Ok(v) : v \in 0..MaxVal}

Ops == {"poll_read", "poll_write", "poll_flush", "poll_shutdown", "poll_write_vectored"}

\* The io::Error built at io.rs:176 (read) and io.rs:201,214,227,244 (writes).
TimedOut(op) == Err(IF op = "poll_read" THEN "TimedOut: read idle" ELSE "TimedOut: write idle")

IsTimedOut(r) == r \in {TimedOut(op) : op \in Ops}

\* Sleep::poll: Ready once the clock has reached the deadline, and on every
\* later poll until the Sleep is reset.
SleepReady(d, t) == t >= d

\* ------------------------------------------------------------- TimeoutIO
\* Variants of PollDeadline with a plausible slip: a timer that a Ready poll
\* never resets, one that every poll resets, and one reset one tick too far.
PollDeadline_NeverReset(inner, d, t, to) == d

PollDeadline_AlwaysReset(inner, d, t, to) == t + to

PollDeadline_ResetTooFar(inner, d, t, to) == IF inner.ready THEN t + to + 1 ELSE d

\* The common body of the five poll methods: the timer after the poll.
PollDeadline(inner, d, t, to) == IF inner.ready THEN t + to ELSE d

\* Variants of PollReturn with a plausible slip: the timer consulted before
\* the wrapped poll's result, and an error of the wrapped stream replaced.
PollReturn_TimerFirst(op, inner, d, t) ==
    IF SleepReady(d, t) THEN TimedOut(op) ELSE inner

PollReturn_ErrReplaced(op, inner, d, t) ==
    IF inner.ready THEN (IF inner.err = "" THEN inner ELSE TimedOut(op))
    ELSE IF SleepReady(d, t) THEN TimedOut(op)
    ELSE inner

\* The common body of the five poll methods: the value returned.
PollReturn(op, inner, d, t) ==
    IF inner.ready THEN inner
    ELSE IF SleepReady(d, t) THEN TimedOut(op)
    ELSE inner

\* Which poll methods reset idle_future on a Ready result, with a slip:
\* the write side forgets to, as if each direction had a timer of its own.
ResetsTimer_ReadOnly(op) == op = "poll_read"

\* Which poll methods reset idle_future on a Ready result: all five, on
\* the one Sleep of the struct (io.rs:172, 198, 211, 224, 241).
ResetsTimer(op) == op \in Ops

Poll(op, inner) ==
    /\ Len(trace) < MaxOps
    /\ deadline' = IF ResetsTimer(op) THEN PollDeadline(inner, deadline, now, timeout)
                   ELSE deadline
    /\ trace' = Append(trace, [inner |-> inner,
                               ret |-> PollReturn(op, inner, deadline, now),
                               late |-> SleepReady(deadline, now)])
    /\ lastOp' = op
    /\ lastProgress' = IF inner.ready THEN now ELSE lastProgress
    /\ UNCHANGED <<now, timeout, steady>>
    /\ UNCHANGED tlsVars
    /\ UNCHANGED reqVars
    /\ UNCHANGED extVars
    /\ UNCHANGED srvVars

TimeoutIO_poll_read == \E inner \in InnerResults : Poll("poll_read", inner)

TimeoutIO_poll_write == \E inner \in InnerResults : Poll("poll_write", inner)

TimeoutIO_poll_flush == \E inner \in InnerResults : Poll("poll_flush", inner)

TimeoutIO_poll_shutdown == \E inner \in InnerResults : Poll("poll_shutdown", inner)

TimeoutIO_poll_write_vectored == \E inner \in InnerResults : Poll("poll_write_vectored", inner)

\* Time passes between two polls.
Tick ==
    /\ now < MaxTime
    /\ now' = now + 1
    /\ steady' = (steady /\ now' - lastProgress < timeout)
    /\ UNCHANGED <<timeout, deadline, lastOp, trace, lastProgress>>
    /\ UNCHANGED tlsVars
    /\ UNCHANGED reqVars
    /\ UNCHANGED extVars
    /\ UNCHANGED srvVars

\* TimeoutIO::new with a slip: the timeout given is ignored for the default.
TimeoutIO_new_DefaultTimeout(d, t) ==
    [timeout |-> DEFAULT_IDLE_TIMEOUT, deadline |-> t + DEFAULT_IDLE_TIMEOUT]

\* TimeoutIO::new(inner, timeout) at clock t (io.rs:134-140):
\* idle_future = sleep(timeout), whose deadline is t + timeout.
TimeoutIO_new(d, t) == [timeout |-> d, deadline |-> t + d]

\* handle_connection (lib.rs:367) has just wrapped an accepted connection,
\* at clock 0, with the idle_timeout of the Server (lib.rs:290, lib.rs:295):
\* nothing has been read from or written to the connection.
InitIO ==
    /\ now = 0
    /\ \E d \in 1..MaxTimeout :
          server = with_timeout(new_server(8080, "router_a", "rx_a"), d)
    /\ setters = <<>>
    /\ timeout = TimeoutIO_new(server.idle_timeout, now).timeout
    /\ deadline = TimeoutIO_new(server.idle_timeout, now).deadline
    /\ lastOp = "none"
    /\ trace = <<>>
    /\ lastProgress = 0
    /\ steady = TRUE
    /\ NoTlsServer
    /\ NoRequests
    /\ NoSignal
    /\ NoUtil

NextIO ==
    \/ TimeoutIO_poll_read
    \/ TimeoutIO_poll_write
    \/ TimeoutIO_poll_flush
    \/ TimeoutIO_poll_shutdown
    \/ TimeoutIO_poll_write_vectored
    \/ Tick

SpecIO == InitIO /\ [][NextIO]_vars

\* ------------------------------------------------- properties of TimeoutIO
\* A step that is one poll of the TimeoutIO, and the record of that poll.
PollStep == Len(trace') = Len(trace) + 1

LastPoll == trace[Len(trace)]

\* C1: in every poll method, when the wrapped stream's poll is Ready (Ok or
\* Err) the idle deadline becomes now + timeout and the caller gets exactly
\* the wrapped stream's result, also when the old deadline had passed.
C1_ReadyResetsAndPassesThrough ==
    [][(PollStep /\ LastPoll'.inner.ready)
          => /\ lastOp' \in Ops
             /\ deadline' = now + timeout
             /\ LastPoll'.ret = LastPoll'.inner]_vars

\* C1 witness: a Ready(Err) poll made after the deadline had passed.
C1_Witness ==
    /\ Len(trace) > 0
    /\ LastPoll.inner = Err("ConnectionReset")
    /\ LastPoll.late
    /\ LastPoll.ret = LastPoll.inner
    /\ deadline = now + timeout

\* C2: in every poll method, when the wrapped stream's poll is Pending the
\* caller gets a TimedOut error if the idle deadline has passed, and Pending
\* with the deadline left as it was otherwise.
C2_PendingTimesOutOrWaits ==
    [][(PollStep /\ ~LastPoll'.inner.ready)
          => IF now >= deadline
             THEN LastPoll'.ret = TimedOut(lastOp')
             ELSE LastPoll'.ret = Pending /\ deadline' = deadline]_vars

\* C2 witness: a Pending poll answered Pending, then one answered TimedOut.
C2_Witness ==
    /\ Len(trace) >= 2
    /\ trace[1].ret = Pending
    /\ ~trace[2].inner.ready
    /\ IsTimedOut(trace[2].ret)

\* C3 as stated: a Pending poll made after an idle period of at least the
\* timeout yields a Timeout error, and one idle period (no Ready poll in
\* between) yields exactly one Timeout error.
C3_ExactlyOneTimeoutPerIdlePeriod ==
    /\ \A i \in 1..Len(trace) :
          (trace[i].late /\ ~trace[i].inner.ready) => IsTimedOut(trace[i].ret)
    /\ \A i, j \in 1..Len(trace) :
          (i < j /\ IsTimedOut(trace[i].ret) /\ IsTimedOut(trace[j].ret))
             => \E k \in (i + 1)..(j - 1) : trace[k].inner.ready

\* C3 amended: when no poll has been Ready for at least the timeout, every
\* poll whose wrapped operation is Pending yields a Timeout error: the first
\* one and each later one, until some operation completes.
C3_IdleForTimeoutYieldsTimeout ==
    [][(PollStep /\ ~LastPoll'.inner.ready /\ now - lastProgress >= timeout)
          => IsTimedOut(LastPoll'.ret)]_vars

\* C3 witness: two Timeout errors in one idle period.
C3_Witness ==
    /\ Len(trace) >= 2
    /\ IsTimedOut(trace[1].ret)
    /\ IsTimedOut(trace[2].ret)
    /\ now - lastProgress >= timeout

\* The results of the wrapped stream and of the TimeoutIO, poll by poll.
InnerResultsSeq == [i \in 1..Len(trace) |-> trace[i].inner]

ReturnedSeq == [i \in 1..Len(trace) |-> trace[i].ret]

\* C4: when every poll was made before the idle deadline, the TimeoutIO has
\* returned the very sequence of results that the wrapped stream returned.
C4_PassThrough ==
    (\A i \in 1..Len(trace) : ~trace[i].late) => ReturnedSeq = InnerResultsSeq

\* C4 witness: Pending, Ok and Err polls, all before the deadline, with the
\* clock advanced.
C4_Witness ==
    /\ Len(trace) >= 3
    /\ now > 0
    /\ \A i \in 1..Len(trace) : ~trace[i].late
    /\ \E i \in 1..Len(trace) : trace[i].inner = Pending
    /\ \E i \in 1..Len(trace) : trace[i].inner = Ok(1)
    /\ \E i \in 1..Len(trace) : trace[i].inner = Err("ConnectionReset")

\* C5: as long as some poll is Ready at intervals shorter than the timeout,
\* no poll yields a Timeout error, however far the clock has advanced.
C5_NoLifetimeCap ==
    steady => \A i \in 1..Len(trace) : ~IsTimedOut(trace[i].ret)

\* C5 witness: a stream alive for twice its timeout, kept alive by Ready
\* polls made more often than the timeout.
C5_Witness ==
    /\ steady
    /\ now >= 2 * timeout
    /\ Len(trace) >= 3
    /\ \A i \in 1..Len(trace) : trace[i].inner.ready


\* ------------------------------------------------ TlsAcceptor and TlsStream
\* The configuration built from the files at start-up (lib.rs:512); the
\* configuration built at the n-th wake-up of the reload task is n.
InitialConfig == 0

\* TlsStream::new with a slip: the handshake is run inside accept().
TlsStream_new_Handshaken(config) ==
    [config |-> config, state |-> "Streaming", accept |-> "End", alive |-> TRUE]

\* TlsStream::new: the handshake future is created, not polled.
TlsStream_new(config) ==
    [config |-> config, state |-> "Handshaking", accept |-> "Handshaking", alive |-> TRUE]

\* TlsAcceptor::replace_config with a slip: the new configuration is dropped.
replace_config_Ignored(acc, new_config) == acc

\* TlsAcceptor::replace_config: only the acceptor's own reference is swapped.
replace_config(acc, new_config) == [acc EXCEPT !.config = new_config]

\* What replace_config does to the streams already accepted, with a slip:
\* the streams still handshaking are moved to the new configuration.
StreamsAfterReplace_Rebound(ss, new_config) ==
    [i \in 1..Len(ss) |->
        IF ss[i].state = "Handshaking" THEN [ss[i] EXCEPT !.config = new_config] ELSE ss[i]]

\* What replace_config does to the streams already accepted: nothing, each
\* holds its own clone of the Arc taken by accept().
StreamsAfterReplace(ss, new_config) == ss

\* TlsAcceptor::accept after listener.accept() returned a socket, with a
\* slip: the stream is built from the start-up configuration.
accept_Stale(acc) == TlsStream_new(InitialConfig)

\* TlsAcceptor::accept after listener.accept() returned a socket.
accept(acc) == TlsStream_new(acc.config)

\* ------------------------------------------------------- serve_tls: reload
\* broadcast::Sender::send on the channel of capacity 1: the one slot is
\* overwritten; with no receiver left the value is dropped (send fails).
Send(ch, v, rxAlive) == IF rxAlive THEN [pos |-> ch.pos + 1, val |-> v] ELSE ch

\* What a tick whose tls_config(..) fails sends, with a slip: an unusable
\* configuration is published all the same.
FailedLoadSend_Publishes(ch, n, rxAlive) == Send(ch, n, rxAlive)

\* What a tick whose tls_config(..) fails sends: nothing (lib.rs:504).
FailedLoadSend(ch, n, rxAlive) == ch

\* The reload task wakes up (lib.rs:503) and tls_config(..) succeeds.
ReloadTickOk ==
    /\ lastTick # "ended"
    /\ ticks < MaxConfigs
    /\ ticks' = ticks + 1
    /\ lastTick' = "published"
    /\ chan' = Send(chan, ticks + 1, pc # "done")
    /\ UNCHANGED <<pc, acceptor, rxNext, streams, replaced, shutdownSent, lastEvent, lastCall>>
    /\ UNCHANGED ioVars
    /\ UNCHANGED reqVars
    /\ UNCHANGED extVars
    /\ UNCHANGED srvVars

\* The reload task wakes up and tls_config(..) fails: the tick is skipped.
ReloadTickFail ==
    /\ lastTick # "ended"
    /\ ticks < MaxConfigs
    /\ ticks' = ticks + 1
    /\ lastTick' = "load_failed"
    /\ chan' = FailedLoadSend(chan, ticks + 1, pc # "done")
    /\ UNCHANGED <<pc, acceptor, rxNext, streams, replaced, shutdownSent, lastEvent, lastCall>>
    /\ UNCHANGED ioVars
    /\ UNCHANGED reqVars
    /\ UNCHANGED extVars
    /\ UNCHANGED srvVars

\* The reload task ends (it has no exit of its own, lib.rs:502-510: a panic
\* inside a tick, or the task being aborted): tx is dropped with it and
\* the configuration channel is closed.
ReloadTaskEnds ==
    /\ pc \in {"select", "drain"}
    /\ lastTick # "ended"
    /\ lastTick' = "ended"
    /\ UNCHANGED <<pc, acceptor, chan, rxNext, ticks, streams, replaced, shutdownSent, lastEvent, lastCall>>
    /\ UNCHANGED ioVars
    /\ UNCHANGED reqVars
    /\ UNCHANGED extVars
    /\ UNCHANGED srvVars

\* rx.recv() yields Err(Closed): the Sender is gone and nothing is unread.
RecvClosed == lastTick = "ended" /\ rxNext = chan.pos

\* Where the loop goes on Err(Closed), with a slip: it warns and goes on
\* serving.
PcAfterRecvClosed_KeepsServing(p) == p

\* Where the loop goes on Err(Closed): warn! and break (lib.rs:529-531).
PcAfterRecvClosed(p) == "drain"

\* The acceptor after that break: there is no drop(acceptor) in this arm,
\* the acceptor lives until serve_tls returns.
AcceptorAfterRecvClosed(acc) == acc

\* ------------------------------------------------- serve_tls: accept loop
\* The signal task sends () on the shutdown channel (lib.rs:588).
SendShutdown ==
    /\ ~shutdownSent
    /\ shutdownSent' = TRUE
    /\ UNCHANGED <<pc, acceptor, chan, rxNext, ticks, lastTick, streams, replaced, lastEvent, lastCall>>
    /\ UNCHANGED ioVars
    /\ UNCHANGED reqVars
    /\ UNCHANGED extVars
    /\ UNCHANGED srvVars

\* Whether the loop is held by the handshake of a connection it accepted,
\* with a slip: accept() performs the handshake before it returns.
HandshakeInLoop_Eager(ss) ==
    \E i \in 1..Len(ss) : ss[i].alive /\ ss[i].state = "Handshaking"

\* Whether the loop is held by the handshake of a connection it accepted:
\* never, accept() returns the stream as soon as the TCP accept is done
\* (tls.rs:139-142) and the handshake is left to the stream's first poll.
HandshakeInLoop(ss) == FALSE

\* select!: shutdown_rx.recv() is chosen (lib.rs:515-519).
SelectShutdown ==
    /\ pc = "select"
    /\ ~HandshakeInLoop(streams)
    /\ shutdownSent
    /\ acceptor' = [acceptor EXCEPT !.live = FALSE]
    /\ pc' = "drain"
    /\ lastEvent' = "shutdown"
    /\ UNCHANGED <<chan, rxNext, ticks, lastTick, streams, replaced, shutdownSent, lastCall>>
    /\ UNCHANGED ioVars
    /\ UNCHANGED reqVars
    /\ UNCHANGED extVars
    /\ UNCHANGED srvVars

\* select!: rx.recv() is chosen and yields Ok(new_config) (lib.rs:522-525).
SelectRecvOk ==
    /\ pc = "select"
    /\ ~HandshakeInLoop(streams)
    /\ rxNext < chan.pos
    /\ chan.pos - rxNext = 1
    /\ acceptor' = replace_config(acceptor, chan.val)
    /\ streams' = StreamsAfterReplace(streams, chan.val)
    /\ replaced' = Append(replaced, chan.val)
    /\ rxNext' = rxNext + 1
    /\ lastEvent' = "replaced"
    /\ UNCHANGED <<pc, chan, ticks, lastTick, shutdownSent, lastCall>>
    /\ UNCHANGED ioVars
    /\ UNCHANGED reqVars
    /\ UNCHANGED extVars
    /\ UNCHANGED srvVars

\* Where the receiver stands after Err(Lagged(n)), with a slip: the value
\* still held by the channel is skipped too.
RxAfterLag_SkipsAll(ch) == ch.pos

\* Where the receiver stands after Err(Lagged(n)): at the oldest value the
\* channel still holds, which with one slot (lib.rs:498) is the last sent.
RxAfterLag(ch) == ch.pos - 1

\* select!: rx.recv() is chosen and yields Err(Lagged(n)): the slot was
\* overwritten before it was read (lib.rs:532-534).
SelectRecvLagged ==
    /\ pc = "select"
    /\ ~HandshakeInLoop(streams)
    /\ chan.pos - rxNext > 1
    /\ rxNext' = RxAfterLag(chan)
    /\ lastEvent' = "lagged"
    /\ UNCHANGED <<pc, acceptor, chan, ticks, lastTick, streams, replaced, shutdownSent, lastCall>>
    /\ UNCHANGED ioVars
    /\ UNCHANGED reqVars
    /\ UNCHANGED extVars
    /\ UNCHANGED srvVars

\* select!: rx.recv() is chosen and yields Err(Closed) (lib.rs:528-531).
SelectRecvClosed ==
    /\ pc = "select"
    /\ ~HandshakeInLoop(streams)
    /\ RecvClosed
    /\ pc' = PcAfterRecvClosed(pc)
    /\ acceptor' = AcceptorAfterRecvClosed(acceptor)
    /\ lastEvent' = "reload_closed"
    /\ UNCHANGED <<chan, rxNext, ticks, lastTick, streams, replaced, shutdownSent, lastCall>>
    /\ UNCHANGED ioVars
    /\ UNCHANGED reqVars
    /\ UNCHANGED extVars
    /\ UNCHANGED srvVars

\* select!: acceptor.accept() is chosen and yields Ok (lib.rs:541-542).
SelectAcceptOk ==
    /\ pc = "select"
    /\ ~HandshakeInLoop(streams)
    /\ Len(streams) < MaxConns
    /\ streams' = Append(streams, accept(acceptor))
    /\ lastEvent' = "accepted"
    /\ UNCHANGED <<pc, acceptor, chan, rxNext, ticks, lastTick, replaced, shutdownSent, lastCall>>
    /\ UNCHANGED ioVars
    /\ UNCHANGED reqVars
    /\ UNCHANGED extVars
    /\ UNCHANGED srvVars

\* select!: acceptor.accept() is chosen and yields Err (lib.rs:543-545).
SelectAcceptErr ==
    /\ pc = "select"
    /\ ~HandshakeInLoop(streams)
    /\ lastEvent' = "accept_error"
    /\ UNCHANGED <<pc, acceptor, chan, rxNext, ticks, lastTick, streams, replaced, shutdownSent, lastCall>>
    /\ UNCHANGED ioVars
    /\ UNCHANGED reqVars
    /\ UNCHANGED extVars
    /\ UNCHANGED srvVars

\* The bounded wait for the connections ends and serve_tls returns Ok(())
\* (lib.rs:550-554); rx is dropped with it, and so is the acceptor if the
\* loop was left without dropping it.
Drain ==
    /\ pc = "drain"
    /\ pc' = "done"
    /\ acceptor' = [acceptor EXCEPT !.live = FALSE]
    /\ UNCHANGED <<chan, rxNext, ticks, lastTick, streams, replaced, shutdownSent, lastEvent, lastCall>>
    /\ UNCHANGED ioVars
    /\ UNCHANGED reqVars
    /\ UNCHANGED extVars
    /\ UNCHANGED srvVars

\* ------------------------------------------------------ TlsStream polling
TlsOps == {"poll_read", "poll_write", "poll_flush", "poll_shutdown"}

\* What the established rustls stream can answer to a poll.
TlsResults == {Pending, Ok(0), Err("ConnectionReset")}

\* The outcomes of polling the tokio_rustls::Accept future.
HandshakePolls == {"Pending", "Ok", "Err"}

HandshakeError == Err("handshake")

\* tokio_rustls::Accept polled again after it completed: it panics instead
\* of returning.
Panicked == [ready |-> FALSE, err |-> "panic: unexpected polling after handshake", val |-> 0]

\* The State after poll_read / poll_write found the handshake complete
\* (tls.rs:230, tls.rs:249).
StateAfterHandshake(st) == "Streaming"

\* The State after poll_flush / poll_shutdown, with a slip: the match arm
\* rebuilds the state as Handshaking.
StateAfterFlush_Reset(st) == "Handshaking"

\* The State after poll_flush / poll_shutdown: untouched (tls.rs:253-265).
StateAfterFlush(st) == st

\* One poll of stream i leaves it as `next` and returns `ret`.
Polled(i, op, next, ret) ==
    /\ streams' = [streams EXCEPT ![i] = next]
    /\ lastCall' = [stream |-> i, op |-> op, ret |-> ret]
    /\ UNCHANGED <<pc, acceptor, chan, rxNext, ticks, lastTick, replaced, shutdownSent, lastEvent>>
    /\ UNCHANGED ioVars
    /\ UNCHANGED reqVars
    /\ UNCHANGED extVars
    /\ UNCHANGED srvVars

\* TlsStream::poll_read and TlsStream::poll_write with a slip: the state is
\* set to Streaming before the result of the handshake is looked at.
ReadWriteOutcomes_StreamingOnError(st) ==
    IF st.state = "Streaming"
    THEN {<<st, r>> : r \in TlsResults}
    ELSE IF st.accept = "End"
    THEN {<<[st EXCEPT !.alive = FALSE], Panicked>>}
    ELSE {<<st, Pending>>}
         \cup {<<[st EXCEPT !.accept = "End", !.state = "Streaming"], HandshakeError>>}
         \cup {<<[st EXCEPT !.accept = "End", !.state = StateAfterHandshake(@)], r>> :
                   r \in TlsResults}

\* TlsStream::poll_read and TlsStream::poll_write (tls.rs:217-232, 236-251)
\* on a stream st: the pairs <<stream afterwards, value returned>>.
ReadWriteOutcomes(st) ==
    IF st.state = "Streaming"
    THEN {<<st, r>> : r \in TlsResults}
    ELSE IF st.accept = "End"
    THEN \* the Accept future is polled again after it failed: it panics
         \* and the connection's task ends with it
         {<<[st EXCEPT !.alive = FALSE], Panicked>>}
    ELSE {<<st, Pending>>}
         \cup {<<[st EXCEPT !.accept = "End"], HandshakeError>>}
         \cup {<<[st EXCEPT !.accept = "End", !.state = StateAfterHandshake(@)], r>> :
                   r \in TlsResults}

PollReadWrite(i, op) ==
    /\ i \in 1..Len(streams)
    /\ streams[i].alive
    /\ \E o \in ReadWriteOutcomes(streams[i]) : Polled(i, op, o[1], o[2])

\* TlsStream::poll_flush and TlsStream::poll_shutdown (tls.rs:253-265).
PollFlushShutdown(i, op) ==
    /\ i \in 1..Len(streams)
    /\ streams[i].alive
    /\ IF streams[i].state = "Streaming"
       THEN \E r \in TlsResults :
                Polled(i, op, [streams[i] EXCEPT !.state = StateAfterFlush(@)], r)
       ELSE Polled(i, op, [streams[i] EXCEPT !.state = StateAfterFlush(@)], Ok(0))

TlsStream_poll_read == \E i \in 1..MaxConns : PollReadWrite(i, "poll_read")

TlsStream_poll_write == \E i \in 1..MaxConns : PollReadWrite(i, "poll_write")

TlsStream_poll_flush == \E i \in 1..MaxConns : PollFlushShutdown(i, "poll_flush")

TlsStream_poll_shutdown == \E i \in 1..MaxConns : PollFlushShutdown(i, "poll_shutdown")

\* The task spawned for connection i ends (lib.rs:381-386): the stream is dropped.
TaskEnds ==
    \E i \in 1..Len(streams) :
        /\ streams[i].alive
        /\ streams' = [streams EXCEPT ![i].alive = FALSE]
        /\ UNCHANGED <<pc, acceptor, chan, rxNext, ticks, lastTick, replaced, shutdownSent, lastEvent, lastCall>>
        /\ UNCHANGED ioVars
        /\ UNCHANGED reqVars
        /\ UNCHANGED extVars
        /\ UNCHANGED srvVars

\* serve_tls has created the channel, spawned the reload task and built the
\* acceptor (lib.rs:498-512): it is about to enter the loop.
InitTls ==
    /\ pc = "select"
    /\ acceptor = [config |-> InitialConfig, live |-> TRUE]
    /\ chan = [pos |-> 0, val |-> InitialConfig]
    /\ rxNext = 0
    /\ ticks = 0
    /\ lastTick = "none"
    /\ streams = <<>>
    /\ replaced = <<>>
    /\ shutdownSent = FALSE
    /\ lastEvent = "none"
    /\ lastCall = [stream |-> 0, op |-> "none", ret |-> Pending]
    /\ useTls = TRUE
    /\ tasks = <<>>
    /\ acceptFailed = FALSE
    /\ drainDeadline = 0
    /\ result = "none"
    /\ NoTimeoutIO
    /\ NoRequests
    /\ NoBuilder
    /\ NoSignal
    /\ NoUtil

NextTls ==
    \/ ReloadTickOk
    \/ ReloadTickFail
    \/ SendShutdown
    \/ SelectShutdown
    \/ SelectRecvOk
    \/ SelectRecvLagged
    \/ SelectRecvClosed
    \/ ReloadTaskEnds
    \/ SelectAcceptOk
    \/ SelectAcceptErr
    \/ Drain
    \/ TaskEnds

SpecTls == InitTls /\ [][NextTls]_vars

\* select! polls rx.recv() in every iteration: a receive that stays ready
\* is taken sooner or later.
SpecTlsFair ==
    /\ SpecTls
    /\ WF_vars(SelectRecvOk)
    /\ WF_vars(SelectRecvLagged)

\* ------------------------------------------- TlsAcceptor driven directly
\* acceptor.replace_config(new_config), each call with a newly built Arc.
TlsAcceptor_replace_config ==
    /\ acceptor.live
    /\ Len(replaced) < MaxConfigs
    /\ acceptor' = replace_config(acceptor, Len(replaced) + 1)
    /\ streams' = StreamsAfterReplace(streams, Len(replaced) + 1)
    /\ replaced' = Append(replaced, Len(replaced) + 1)
    /\ lastCall' = [stream |-> 0, op |-> "replace_config", ret |-> Ok(0)]
    /\ UNCHANGED <<pc, chan, rxNext, ticks, lastTick, shutdownSent, lastEvent>>
    /\ UNCHANGED ioVars
    /\ UNCHANGED reqVars
    /\ UNCHANGED extVars
    /\ UNCHANGED srvVars

\* acceptor.accept() returns Ok((TlsStream, addr)) (tls.rs:139-142).
TlsAcceptor_accept_Ok ==
    /\ acceptor.live
    /\ Len(streams) < MaxConns
    /\ streams' = Append(streams, accept(acceptor))
    /\ lastCall' = [stream |-> Len(streams) + 1, op |-> "accept", ret |-> Ok(0)]
    /\ UNCHANGED <<pc, acceptor, chan, rxNext, ticks, lastTick, replaced, shutdownSent, lastEvent>>
    /\ UNCHANGED ioVars
    /\ UNCHANGED reqVars
    /\ UNCHANGED extVars
    /\ UNCHANGED srvVars

\* acceptor.accept() returns the Err of listener.accept() (tls.rs:140).
TlsAcceptor_accept_Err ==
    /\ acceptor.live
    /\ lastCall' = [stream |-> 0, op |-> "accept", ret |-> Err("accept")]
    /\ UNCHANGED <<pc, acceptor, chan, rxNext, ticks, lastTick, streams, replaced, shutdownSent, lastEvent>>
    /\ UNCHANGED ioVars
    /\ UNCHANGED reqVars
    /\ UNCHANGED extVars
    /\ UNCHANGED srvVars

\* A TlsAcceptor built as at lib.rs:512, no stream accepted yet.
InitStream == InitTls

NextStream ==
    \/ TlsAcceptor_replace_config
    \/ TlsAcceptor_accept_Ok
    \/ TlsAcceptor_accept_Err
    \/ TlsStream_poll_read
    \/ TlsStream_poll_write
    \/ TlsStream_poll_flush
    \/ TlsStream_poll_shutdown
    \/ TaskEnds

SpecStream == InitStream /\ [][NextStream]_vars

\* ---------------------------------- properties of TlsAcceptor and TlsStream
\* A step in which accept() returned a new stream, and that stream.
AcceptStep == Len(streams') = Len(streams) + 1

NewStream == streams[Len(streams)]

\* The configuration the acceptor was last given.
LatestReplaced == IF replaced = <<>> THEN InitialConfig ELSE replaced[Len(replaced)]

\* C6: a TlsStream keeps the configuration it was given by accept(): no
\* step changes the configuration of an accepted stream, and a
\* replace_config call leaves every accepted stream, handshaking or
\* streaming, exactly as it was.
C6_ConfigIsolation ==
    [][/\ \A i \in 1..Len(streams) : streams'[i].config = streams[i].config
       /\ Len(replaced') > Len(replaced)
             => \A i \in 1..Len(streams) : streams'[i] = streams[i]]_vars

\* C6 witness: replace_config has just been called while one stream was
\* handshaking and one streaming; both still hold the older configuration.
C6_Witness ==
    /\ lastCall.op = "replace_config"
    /\ \E i, j \in 1..Len(streams) :
          /\ streams[i].alive /\ streams[i].state = "Handshaking"
          /\ streams[j].alive /\ streams[j].state = "Streaming"
          /\ streams[i].config # acceptor.config
          /\ streams[j].config # acceptor.config

\* C7: the stream returned by accept() is bound to the configuration of the
\* latest replace_config call (the start-up one when there was none).
C7_ConfigFreshness ==
    [][AcceptStep => NewStream'.config = LatestReplaced]_vars

\* C7 witness: accept() after two replace_config calls returned a stream
\* bound to the second configuration.
C7_Witness ==
    /\ Len(replaced) >= 2
    /\ replaced[1] # replaced[2]
    /\ lastCall.op = "accept"
    /\ lastCall.ret = Ok(0)
    /\ streams[lastCall.stream].config = replaced[2]

\* C10: a TlsStream is Handshaking or Streaming, it is Handshaking when
\* accept() returns it, and no step takes a Streaming stream back to
\* Handshaking.
C10_HandshakeOneWay ==
    [][/\ \A i \in 1..Len(streams') : streams'[i].state \in {"Handshaking", "Streaming"}
       /\ AcceptStep => NewStream'.state = "Handshaking"
       /\ \A i \in 1..Len(streams) :
             streams[i].state = "Streaming" => streams'[i].state = "Streaming"]_vars

\* C10 witness: a stream that reached Streaming has since been flushed.
C10_Witness ==
    /\ lastCall.op = "poll_flush"
    /\ lastCall.stream \in 1..Len(streams)
    /\ streams[lastCall.stream].state = "Streaming"
    /\ lastCall.ret = Ok(0)

\* ------------------------------------------------ properties of serve_tls
\* A step in which the reload task woke up.
TickStep == ticks' = ticks + 1

\* C8 as stated: a connection accepted after a reload tick is bound to the
\* configuration that tick published (and one accepted before it to the
\* configuration published before): accept() binds the latest published one.
C8_AcceptBindsLatestPublished ==
    [][AcceptStep => NewStream'.config = chan.val]_vars

\* C8 amended: a reload tick leaves the connections accepted before it bound
\* to their earlier configuration; a connection accepted once the accept
\* loop has received everything published is bound to the latest published
\* configuration; a connection accepted while a published configuration has
\* not been received yet is bound to the one the loop installed last.
C8_AcceptBindsLatestReceived ==
    [][/\ TickStep => streams' = streams
       /\ AcceptStep => /\ rxNext = chan.pos => NewStream'.config = chan.val
                        /\ rxNext < chan.pos => NewStream'.config = LatestReplaced]_vars

\* C8 witness: one connection bound to the start-up configuration, and one
\* accepted after the loop received what a tick published, bound to that.
C8_Witness ==
    /\ Len(streams) >= 2
    /\ chan.pos >= 1
    /\ rxNext = chan.pos
    /\ lastEvent = "accepted"
    /\ streams[1].config = InitialConfig
    /\ streams[Len(streams)].config = chan.val
    /\ chan.val # InitialConfig

\* C9: a tick whose load fails publishes nothing and changes neither the
\* acceptor nor the accept loop nor any connection; the loop stays where it
\* was and the reload task can wake up again.
C9_FailedReloadIsSkipped ==
    /\ [][(TickStep /\ lastTick' = "load_failed")
             => UNCHANGED <<chan, rxNext, acceptor, pc, streams, replaced, shutdownSent, lastEvent>>]_vars
    /\ []((lastTick = "load_failed" /\ ticks < MaxConfigs)
             => (ENABLED ReloadTickOk /\ ENABLED ReloadTickFail))

\* C9 witness: the first tick failed, the second published, the loop
\* installed it and then accepted a connection with it.
C9_Witness ==
    /\ ticks = 2
    /\ chan.pos = 1
    /\ lastTick = "published"
    /\ pc = "select"
    /\ lastEvent = "accepted"
    /\ acceptor.config = chan.val
    /\ streams[Len(streams)].config = chan.val

\* ============================================================ Server::run
\* GRACEFUL_SHUTDOWN_TIMEOUT (lib.rs:68) is 10 s: two clock ticks of 5 s.
GRACEFUL_SHUTDOWN_TIMEOUT == 2

\* Why a connection's task can end with an error: conn.await returns Err
\* (lib.rs:382) for an idle timeout of TimeoutIO, a failed TLS handshake, a
\* request dropped by the interceptor, an HTTP protocol error, an I/O error.
FailureKinds == {"idle_timeout", HandshakeError.err, "interceptor_drop", "protocol", "ConnectionReset"}

\* The task spawned by handle_connection (lib.rs:381), registered with
\* graceful.watch (lib.rs:379); afterError tells whether an accept error
\* had been logged before.
NewTask(afterError) ==
    [status |-> "running", why |-> "none", afterError |-> afterError, watched |-> FALSE]

\* graceful.watch(conn) with a slip: the connection is spawned unwatched.
watch_Skipped(task) == task

\* graceful.watch(conn) (lib.rs:379), before tokio::spawn (lib.rs:381): the
\* watcher counts the connection until its future is dropped.
watch(task) == [task EXCEPT !.watched = TRUE]

Running(i) == i \in 1..Len(tasks) /\ tasks[i].status = "running"

\* graceful.shutdown() completes when every watched connection has finished.
AllWatchedDone == \A i \in 1..Len(tasks) : tasks[i].watched => tasks[i].status = "ended"

\* The future awaited in the drain, with a slip: graceful.shutdown() is
\* awaited without the timeout.
DrainReady_NoTimeout == AllWatchedDone

\* The future awaited at lib.rs:463 / lib.rs:550 is ready: the connections
\* have finished or the timeout has fired.
DrainReady == AllWatchedDone \/ now >= drainDeadline

\* run() is called: the listener is bound (lib.rs:444)
\* or the acceptor is built (lib.rs:512) and the loop is entered.
Run_Start ==
    /\ pc = "idle"
    /\ pc' = "select"
    /\ acceptor' = [config |-> InitialConfig, live |-> TRUE]
    /\ lastEvent' = "started"
    /\ useTls' = use_tls(server.tls_param)
    /\ UNCHANGED <<chan, rxNext, ticks, lastTick, streams, replaced, shutdownSent, lastCall>>
    /\ UNCHANGED <<tasks, acceptFailed, drainDeadline, result>>
    /\ UNCHANGED ioVars
    /\ UNCHANGED reqVars
    /\ UNCHANGED extVars

\* What can fail before the loop is entered: binding the listener
\* (lib.rs:444, lib.rs:512) and, under TLS, tls_config (lib.rs:512).
StartFailures(tls) == {"bind_failed"} \cup (IF tls THEN {"tls_config_failed"} ELSE {})

\* Where run() is after a failed start, with a slip: it is called again.
PcAfterStartFailure_Retries(p) == "idle"

\* Where run() is after a failed start: the `?` has returned the error.
PcAfterStartFailure(p) == "done"

\* run() is called and binding the port or loading the certificate fails:
\* the `?` at lib.rs:444 / lib.rs:512 returns the error.
Run_StartFails ==
    /\ pc = "idle"
    /\ pc' = PcAfterStartFailure(pc)
    /\ result' = "Err"
    /\ useTls' = use_tls(server.tls_param)
    /\ \E failure \in StartFailures(useTls') : lastEvent' = failure
    /\ UNCHANGED <<acceptor, chan, rxNext, ticks, lastTick, streams, replaced, shutdownSent, lastCall>>
    /\ UNCHANGED <<tasks, acceptFailed, drainDeadline>>
    /\ UNCHANGED ioVars
    /\ UNCHANGED reqVars
    /\ UNCHANGED extVars

\* Whether the loop polls accept, with a slip: the listener is still
\* polled while the connections are drained.
CanAccept_WhileDraining(p, acc) == p \in {"select", "drain"}

\* Whether the loop polls accept: it is in select! and owns the listener.
CanAccept(p, acc) == p = "select" /\ acc.live

\* Where the loop goes after an accept error, with a slip: the error
\* leaves the loop as a `?` would.
PcAfterAcceptError_Breaks(p) == "drain"

\* Where the loop goes after an accept error: warn!, next iteration
\* (lib.rs:456-458, lib.rs:543-545).
PcAfterAcceptError(p) == p

\* Whether handle_connection, which the loop awaits before its next
\* select!, is still pending, with a slip: it awaits the connection
\* instead of spawning it.
handle_connection_Pending_Joins(ts) == \E i \in 1..Len(ts) : ts[i].status = "running"

\* Whether handle_connection, which the loop awaits before its next
\* select!, is still pending: never, it returns as soon as the connection
\* is watched and its task spawned (lib.rs:379-386).
handle_connection_Pending(ts) == FALSE

\* select!: shutdown_rx.recv() is chosen (lib.rs:447-451, lib.rs:515-519):
\* the listener is dropped, the loop is left and the bounded wait starts.
Loop_Shutdown ==
    /\ pc = "select"
    /\ ~handle_connection_Pending(tasks)
    /\ shutdownSent
    /\ acceptor' = [acceptor EXCEPT !.live = FALSE]
    /\ pc' = "drain"
    /\ drainDeadline' = now + GRACEFUL_SHUTDOWN_TIMEOUT
    /\ lastEvent' = "shutdown"
    /\ UNCHANGED <<chan, rxNext, ticks, lastTick, streams, replaced, shutdownSent, lastCall>>
    /\ UNCHANGED <<useTls, tasks, acceptFailed, result>>
    /\ UNCHANGED ioVars
    /\ UNCHANGED reqVars
    /\ UNCHANGED extVars

\* select!: rx.recv() of serve_tls is chosen and yields Err(Closed)
\* (lib.rs:528-531): the loop is left and the bounded wait starts.  The
\* reload task is not followed tick by tick here; the step stands for its
\* having ended and the loop's receive finding the channel closed.
Loop_RecvClosed ==
    /\ pc = "select"
    /\ ~handle_connection_Pending(tasks)
    /\ useTls
    /\ rxNext = chan.pos
    /\ lastTick' = "ended"
    /\ pc' = PcAfterRecvClosed(pc)
    /\ acceptor' = AcceptorAfterRecvClosed(acceptor)
    /\ drainDeadline' = IF pc' = "drain" THEN now + GRACEFUL_SHUTDOWN_TIMEOUT ELSE drainDeadline
    /\ lastEvent' = "reload_closed"
    /\ UNCHANGED <<chan, rxNext, ticks, streams, replaced, shutdownSent, lastCall>>
    /\ UNCHANGED <<useTls, tasks, acceptFailed, result>>
    /\ UNCHANGED ioVars
    /\ UNCHANGED reqVars
    /\ UNCHANGED extVars

\* select!: accept is chosen and yields Ok (lib.rs:454-455, lib.rs:541-542):
\* handle_connection spawns the connection's task.
Loop_AcceptOk ==
    /\ CanAccept(pc, acceptor)
    /\ ~handle_connection_Pending(tasks)
    /\ Len(tasks) < MaxConns
    /\ tasks' = Append(tasks, watch(NewTask(acceptFailed)))
    /\ streams' = IF useTls THEN Append(streams, accept(acceptor)) ELSE streams
    /\ lastEvent' = "accepted"
    /\ UNCHANGED <<pc, acceptor, chan, rxNext, ticks, lastTick, replaced, shutdownSent, lastCall>>
    /\ UNCHANGED <<useTls, acceptFailed, drainDeadline, result>>
    /\ UNCHANGED ioVars
    /\ UNCHANGED reqVars
    /\ UNCHANGED extVars

\* select!: accept is chosen and yields Err (lib.rs:456-458, lib.rs:543-545).
Loop_AcceptErr ==
    /\ CanAccept(pc, acceptor)
    /\ ~handle_connection_Pending(tasks)
    /\ acceptFailed' = TRUE
    /\ pc' = PcAfterAcceptError(pc)
    /\ lastEvent' = "accept_error"
    /\ UNCHANGED <<acceptor, chan, rxNext, ticks, lastTick, streams, replaced, shutdownSent, lastCall>>
    /\ UNCHANGED <<useTls, tasks, drainDeadline, result>>
    /\ UNCHANGED ioVars
    /\ UNCHANGED reqVars
    /\ UNCHANGED extVars

\* ------------------------------------------------------ connection tasks
\* What the failure of task i does to the tasks, with a slip: the failure
\* tears the other connections down too.
TasksAfterFailure_TearsDownAll(ts, i, why) ==
    [j \in 1..Len(ts) |->
        IF ts[j].status = "running" THEN [ts[j] EXCEPT !.status = "ended", !.why = why]
        ELSE ts[j]]

\* What the failure of task i does to the tasks: conn.await returns Err,
\* handle_hyper_error logs it and the task ends (lib.rs:382-385).
TasksAfterFailure(ts, i, why) ==
    [ts EXCEPT ![i] = [@ EXCEPT !.status = "ended", !.why = why]]

\* The stream of connection i once its task has ended: dropped with it.
StreamsAfterTaskEnd(ss, i) ==
    IF useTls THEN [ss EXCEPT ![i] = [@ EXCEPT !.alive = FALSE]] ELSE ss

\* The task of TLS connection i reads from its stream while the handshake
\* is pending (tls.rs:217-232): the handshake goes on, completes or fails.
\* An Err from the poll ends the connection future with that error, and
\* with it the task: why is the error the poll returned.
Task_Handshake ==
    \E i \in 1..MaxConns :
        /\ useTls
        /\ Running(i)
        /\ streams[i].state = "Handshaking"
        /\ \E o \in ReadWriteOutcomes(streams[i]) :
              /\ IF o[2].err # ""
                 THEN /\ tasks' = TasksAfterFailure(tasks, i, o[2].err)
                      /\ streams' = [streams EXCEPT ![i] = [o[1] EXCEPT !.alive = FALSE]]
                 ELSE /\ tasks' = tasks
                      /\ streams' = [streams EXCEPT ![i] = o[1]]
        /\ UNCHANGED <<pc, acceptor, chan, rxNext, ticks, lastTick, replaced, shutdownSent, lastEvent, lastCall>>
        /\ UNCHANGED <<useTls, acceptFailed, drainDeadline, result>>
        /\ UNCHANGED ioVars
        /\ UNCHANGED reqVars
        /\ UNCHANGED extVars

\* The task of connection i ends with an error other than a failed
\* handshake; a request or a protocol error needs an established stream.
Task_Fails ==
    \E i \in 1..MaxConns, why \in FailureKinds \ {HandshakeError.err} :
        /\ Running(i)
        /\ (useTls /\ why \in {"interceptor_drop", "protocol"}) => streams[i].state = "Streaming"
        /\ tasks' = TasksAfterFailure(tasks, i, why)
        /\ streams' = StreamsAfterTaskEnd(streams, i)
        /\ UNCHANGED <<pc, acceptor, chan, rxNext, ticks, lastTick, replaced, shutdownSent, lastEvent, lastCall>>
        /\ UNCHANGED <<useTls, acceptFailed, drainDeadline, result>>
        /\ UNCHANGED ioVars
        /\ UNCHANGED reqVars
        /\ UNCHANGED extVars

\* The task of connection i ends without error: the connection was served
\* and closed (conn.await returns Ok, lib.rs:382-385).
Task_Ends ==
    \E i \in 1..MaxConns :
        /\ Running(i)
        /\ useTls => streams[i].state = "Streaming"
        /\ tasks' = [tasks EXCEPT ![i] = [@ EXCEPT !.status = "ended", !.why = "closed"]]
        /\ streams' = StreamsAfterTaskEnd(streams, i)
        /\ UNCHANGED <<pc, acceptor, chan, rxNext, ticks, lastTick, replaced, shutdownSent, lastEvent, lastCall>>
        /\ UNCHANGED <<useTls, acceptFailed, drainDeadline, result>>
        /\ UNCHANGED ioVars
        /\ UNCHANGED reqVars
        /\ UNCHANGED extVars

\* ------------------------------------------------------------- the drain
\* Where run() is after the bounded wait, with a slip: the loop is entered
\* again.
PcAfterDrain_Restarts(p) == "select"

\* Where run() is after the bounded wait: it returns (lib.rs:467, lib.rs:554).
PcAfterDrain(p) == "done"

\* timeout(..) yields Ok: every watched connection has finished
\* (lib.rs:464, lib.rs:551); run() returns Ok(()).
Drain_Graceful ==
    /\ pc = "drain"
    /\ DrainReady
    /\ AllWatchedDone
    /\ pc' = PcAfterDrain(pc)
    /\ result' = "Ok"
    /\ lastEvent' = "drained"
    /\ acceptor' = [acceptor EXCEPT !.live = FALSE]
    /\ UNCHANGED <<chan, rxNext, ticks, lastTick, streams, replaced, shutdownSent, lastCall>>
    /\ UNCHANGED <<useTls, tasks, acceptFailed, drainDeadline>>
    /\ UNCHANGED ioVars
    /\ UNCHANGED reqVars
    /\ UNCHANGED extVars

\* timeout(..) yields Err(Elapsed): the grace period is over and some
\* connection has not finished (lib.rs:465, lib.rs:552); run() returns Ok(()).
Drain_Forced ==
    /\ pc = "drain"
    /\ DrainReady
    /\ ~AllWatchedDone
    /\ pc' = PcAfterDrain(pc)
    /\ result' = "Ok"
    /\ lastEvent' = "drain_timeout"
    /\ acceptor' = [acceptor EXCEPT !.live = FALSE]
    /\ UNCHANGED <<chan, rxNext, ticks, lastTick, streams, replaced, shutdownSent, lastCall>>
    /\ UNCHANGED <<useTls, tasks, acceptFailed, drainDeadline>>
    /\ UNCHANGED ioVars
    /\ UNCHANGED reqVars
    /\ UNCHANGED extVars

\* Time passes.  run() is resumed as soon as the future it awaits in the
\* drain is ready, so the clock does not advance past that moment; before
\* the drain the clock is capped by MaxTime.
TimePasses ==
    /\ pc \in {"idle", "select", "drain"}
    /\ IF pc = "drain" THEN ~DrainReady ELSE now < MaxTime
    /\ now' = now + 1
    /\ UNCHANGED <<timeout, deadline, lastOp, trace, lastProgress, steady>>
    /\ UNCHANGED tlsVars
    /\ UNCHANGED reqVars
    /\ UNCHANGED extVars
    /\ UNCHANGED srvVars

\* A Server built by new_server / with_tls_param, run() not yet called.
InitRun ==
    /\ pc = "idle"
    /\ \E tls_param \in TlsParams :
          server = with_tls_param(new_server(8080, "router_a", "rx_a"), tls_param)
    /\ setters = <<>>
    /\ NoSignal
    /\ NoUtil
    /\ useTls = FALSE
    /\ acceptor = [config |-> InitialConfig, live |-> FALSE]
    /\ chan = [pos |-> 0, val |-> InitialConfig]
    /\ rxNext = 0
    /\ ticks = 0
    /\ lastTick = "none"
    /\ streams = <<>>
    /\ replaced = <<>>
    /\ shutdownSent = FALSE
    /\ lastEvent = "none"
    /\ lastCall = [stream |-> 0, op |-> "none", ret |-> Pending]
    /\ tasks = <<>>
    /\ acceptFailed = FALSE
    /\ drainDeadline = 0
    /\ result = "none"
    /\ NoTimeoutIO
    /\ NoRequests

NextRun ==
    \/ Run_Start
    \/ Run_StartFails
    \/ SendShutdown
    \/ Loop_Shutdown
    \/ Loop_AcceptOk
    \/ Loop_AcceptErr
    \/ Task_Handshake
    \/ Task_Fails
    \/ Task_Ends
    \/ Drain_Graceful
    \/ Drain_Forced
    \/ TimePasses

SpecRun == InitRun /\ [][NextRun]_vars

\* run() is resumed when the future it awaits is ready, and the clock runs.
SpecRunFair ==
    /\ SpecRun
    /\ WF_vars(Drain_Graceful)
    /\ WF_vars(Drain_Forced)
    /\ WF_vars(TimePasses)

\* ============================================== properties of Server::run
\* A step in which the loop accepted a connection and spawned its task.
SpawnStep == Len(tasks') = Len(tasks) + 1

\* A step in which the task of connection i ended with error why.
FailsWith(i, why) ==
    /\ i \in 1..Len(tasks)
    /\ tasks[i].status = "running"
    /\ tasks'[i].status = "ended"
    /\ tasks'[i].why = why

\* Everything of the accept loop and of run().
loopState == <<pc, acceptor, shutdownSent, acceptFailed, drainDeadline, result, lastEvent>>

\* C11: a poll of a handshaking TlsStream can return the handshake error
\* and then leaves the stream Handshaking; when it does, the connection's
\* task ends with that error, the stream never becomes Streaming, every
\* other task and stream and the accept loop are left as they were, and
\* the loop still accepts.
C11_HandshakeFailureIsLocal ==
    /\ [][\A i \in 1..Len(tasks) :
             FailsWith(i, HandshakeError.err)
                => /\ streams[i].state = "Handshaking"
                   /\ streams'[i].state = "Handshaking"
                   /\ \A j \in 1..Len(tasks) :
                         j # i => (tasks'[j] = tasks[j] /\ streams'[j] = streams[j])
                   /\ UNCHANGED loopState]_vars
    /\ [](\A i \in 1..Len(streams) :
             /\ (streams[i].state = "Handshaking" /\ streams[i].accept = "Handshaking")
                   => \E o \in ReadWriteOutcomes(streams[i]) :
                          o[2] = HandshakeError /\ o[1].state = "Handshaking"
             /\ tasks[i].why = HandshakeError.err
                   => (streams[i].state = "Handshaking" /\ tasks[i].status = "ended"))
    /\ []((pc = "select" /\ Len(tasks) < MaxConns) => ENABLED Loop_AcceptOk)

\* C11 witness: the handshake of the first connection failed; the loop is
\* still running and the second connection was served and closed.
C11_Witness ==
    /\ useTls
    /\ pc = "select"
    /\ Len(tasks) >= 2
    /\ tasks[1].why = HandshakeError.err
    /\ streams[1].state = "Handshaking"
    /\ tasks[2].why = "closed"
    /\ streams[2].state = "Streaming"

\* The server's state, by where run() is.
ServerState ==
    CASE pc = "idle" -> "Idle"
      [] pc = "select" -> "Running"
      [] pc = "drain" -> "Draining"
      [] pc = "done" -> "Terminated"

\* C12: the server moves only from Idle to Running, from Running to
\* Draining and from Draining to Terminated (and from Idle straight to
\* Terminated when run() fails to start, returning Err); it accepts
\* connections in Running only, so never before run() has entered the
\* loop, and it never leaves Terminated.
C12_StatesInOrder ==
    /\ [][\/ ServerState' = ServerState
          \/ ServerState = "Idle" /\ ServerState' = "Running"
          \/ ServerState = "Idle" /\ ServerState' = "Terminated" /\ result' = "Err"
          \/ ServerState = "Running" /\ ServerState' = "Draining"
          \/ ServerState = "Draining" /\ ServerState' = "Terminated"]_vars
    /\ [][SpawnStep => (ServerState = "Running" /\ ServerState' = "Running")]_vars
    /\ [](ServerState = "Idle" => (tasks = <<>> /\ ~acceptor.live))
    /\ [][ServerState = "Terminated" => ServerState' = "Terminated"]_vars

\* C12 witness: a server that served a connection, drained with one
\* connection left unfinished and terminated; the task still runs.
C12_Witness ==
    /\ ServerState = "Terminated"
    /\ result = "Ok"
    /\ lastEvent = "drain_timeout"
    /\ Len(tasks) >= 2
    /\ tasks[1].why = "closed"
    /\ tasks[2].status = "running"

\* A step in which accept returned Err to the loop.
AcceptErrStep == lastEvent' = "accept_error" /\ lastEvent # "accept_error"

\* C13: an accept error leaves the server Running with its listener, its
\* connections and run() untouched; the loop is back in select!, where a
\* connection arriving next is accepted and its task spawned.
C13_AcceptErrorKeepsRunning ==
    /\ [][AcceptErrStep
             => /\ ServerState = "Running" /\ ServerState' = "Running"
                /\ UNCHANGED <<acceptor, tasks, streams, result, shutdownSent>>]_vars
    /\ [](lastEvent = "accept_error"
             => /\ ServerState = "Running"
                /\ acceptor.live
                /\ Len(tasks) < MaxConns => ENABLED Loop_AcceptOk)
    /\ [][(SpawnStep /\ acceptFailed)
             => (tasks'[Len(tasks')].status = "running" /\ tasks'[Len(tasks')].afterError)]_vars

\* C13 witness: on the plaintext loop, a connection accepted after an accept
\* error has been served to its end while the server is still Running.
C13_Witness ==
    /\ ~useTls
    /\ acceptFailed
    /\ ServerState = "Running"
    /\ \E i \in 1..Len(tasks) : tasks[i].afterError /\ tasks[i].why = "closed"

\* C14 as stated: once the shutdown signal has been sent, no connection is
\* accepted.
C14_NoAcceptAfterSignalSent ==
    [][SpawnStep => ~shutdownSent]_vars

\* C14 amended: once the accept loop has taken the shutdown branch of
\* select!, the listener is gone for good and no connection is accepted,
\* in Draining and in Terminated; until then the loop is Running and
\* accepts, also when the signal has already been sent.
C14_NoAcceptAfterShutdownObserved ==
    /\ [][SpawnStep => (ServerState = "Running" /\ acceptor.live)]_vars
    /\ [][Loop_Shutdown => (ServerState' = "Draining" /\ ~acceptor'.live)]_vars
    /\ [][~acceptor.live => (~acceptor'.live \/ ServerState = "Idle")]_vars
    /\ [](ServerState \in {"Draining", "Terminated"} => ~ENABLED Loop_AcceptOk)
    /\ []((ServerState = "Running" /\ shutdownSent /\ Len(tasks) < MaxConns)
             => (ENABLED Loop_AcceptOk /\ ENABLED Loop_Shutdown))

\* C14 witness: the loop has observed the signal and time has passed in
\* the drain; one connection is still served, and the server could hold
\* another one but accepts none.
C14_Witness ==
    /\ ServerState = "Draining"
    /\ shutdownSent
    /\ lastEvent = "shutdown"
    /\ now > drainDeadline - GRACEFUL_SHUTDOWN_TIMEOUT
    /\ Len(tasks) = 1
    /\ Len(tasks) < MaxConns
    /\ tasks[1].status = "running"

\* C15: once the loop has observed the shutdown signal run() eventually
\* returns Ok(()).  The grace period starts at that moment; run() returns
\* when every watched connection has finished or when the grace period has
\* elapsed, whichever comes first: it is never still waiting after the
\* deadline, and the clock does not advance while nothing is left to wait
\* for.
C15_DrainIsBounded ==
    /\ (ServerState = "Draining") ~> (ServerState = "Terminated" /\ result = "Ok")
    /\ [][(ServerState = "Running" /\ ServerState' = "Draining")
             => drainDeadline' = now + GRACEFUL_SHUTDOWN_TIMEOUT]_vars
    /\ [][(ServerState = "Draining" /\ ServerState' # "Draining")
             => /\ ServerState' = "Terminated"
                /\ result' = "Ok"
                /\ IF AllWatchedDone THEN lastEvent' = "drained"
                   ELSE now = drainDeadline /\ lastEvent' = "drain_timeout"]_vars
    /\ [](ServerState = "Draining" => now <= drainDeadline)
    /\ [][(ServerState = "Draining" /\ AllWatchedDone) => now' = now]_vars

\* C15 witness: the signal was observed after the clock had advanced, and
\* run() returned Ok(()) before the deadline, when the last of two
\* connections finished.
C15_Witness ==
    /\ ServerState = "Terminated"
    /\ result = "Ok"
    /\ lastEvent = "drained"
    /\ drainDeadline > GRACEFUL_SHUTDOWN_TIMEOUT
    /\ drainDeadline - GRACEFUL_SHUTDOWN_TIMEOUT < now
    /\ now < drainDeadline
    /\ Len(tasks) = 2

\* C16: when the task of a connection ends with an error of any kind (idle
\* timeout, handshake error, interceptor Drop, protocol error, I/O error),
\* that step changes nothing of the accept loop or of run() (it does not
\* return, in particular not with an error) and nothing of any other
\* connection.
C16_FailuresAreLocal ==
    /\ [][\A i \in 1..Len(tasks), why \in FailureKinds :
             FailsWith(i, why)
                => /\ UNCHANGED loopState
                   /\ Len(tasks') = Len(tasks)
                   /\ \A j \in 1..Len(tasks) : j # i => tasks'[j] = tasks[j]
                   /\ \A j \in 1..Len(streams) : j # i => streams'[j] = streams[j]]_vars
    /\ [](result # "none" => ServerState = "Terminated")
    /\ [][(result = "none" /\ result' = "Err") => ServerState = "Idle"]_vars

\* C16 witness: on the TLS loop, the first connection ended because the
\* interceptor dropped a request; the second is still served and the
\* server is Running.
C16_Witness ==
    /\ useTls
    /\ ServerState = "Running"
    /\ result = "none"
    /\ Len(tasks) = 2
    /\ tasks[1].why = "interceptor_drop"
    /\ tasks[2].status = "running"
    /\ streams[2].state = "Streaming"

\* ================================================================= handle
\* The requests a client sends and the errors an interceptor reports.
Requests == 1..MaxRequests

Errors == 1..MaxErr

\* A Response: its status, who built it and from what.
NoResponse == [status |-> 0, by |-> "none", of |-> 0]

\* app.oneshot(req): the response of the application's router to req.
Handler(req) == [status |-> 200, by |-> "handler", of |-> req]

\* impl IntoResponse for AppError (error.rs:49-56): 500, "ERROR: {err}".
into_response(err) == [status |-> 500, by |-> "ERROR: ", of |-> err]

\* The responses an interceptor builds itself: a refusal, or the very
\* response the handler would give to request 1.
InterceptorResponses == {[status |-> 403, by |-> "interceptor", of |-> 0], Handler(1)}

\* enum InterceptResult (lib.rs:113-118).
Return(res) == [tag |-> "Return", response |-> res, request |-> 0, error |-> 0]

Drop == [tag |-> "Drop", response |-> NoResponse, request |-> 0, error |-> 0]

Continue(req) == [tag |-> "Continue", response |-> NoResponse, request |-> req, error |-> 0]

Error(err) == [tag |-> "Error", response |-> NoResponse, request |-> 0, error |-> err]

\* No interceptor is configured: intercept is not called.
NotIntercepted == [tag |-> "None", response |-> NoResponse, request |-> 0, error |-> 0]

\* What intercept(request, addr) can return: Continue with the request as
\* it came or with another one in its place.
InterceptResults ==
    {Return(res) : res \in InterceptorResponses}
        \cup {Drop}
        \cup {Continue(req) : req \in Requests}
        \cup {Error(err) : err \in Errors}

\* Result<Response, std::io::Error>.
HandleOk(res) == [ok |-> TRUE, response |-> res, error |-> ""]

HandleErr(e) == [ok |-> FALSE, response |-> NoResponse, error |-> e]

\* handle with a slip: Continue forwards the request as it came, not the
\* one the interceptor returned.
handle_ForwardsOriginal(opt, ir, request) ==
    IF opt = "None" \/ ir.tag = "Continue"
    THEN [calls |-> <<request>>, yield |-> HandleOk(Handler(request))]
    ELSE CASE ir.tag = "Return" -> [calls |-> <<>>, yield |-> HandleOk(ir.response)]
           [] ir.tag = "Drop" ->
                 [calls |-> <<>>, yield |-> HandleErr("Request dropped by interceptor")]
           [] ir.tag = "Error" -> [calls |-> <<>>, yield |-> HandleOk(into_response(ir.error))]

\* handle with a slip: the handler runs although the interceptor returned
\* a response, which is then sent.
handle_ReturnRunsHandler(opt, ir, request) ==
    IF opt = "None"
    THEN [calls |-> <<request>>, yield |-> HandleOk(Handler(request))]
    ELSE CASE ir.tag = "Return" -> [calls |-> <<request>>, yield |-> HandleOk(ir.response)]
           [] ir.tag = "Drop" ->
                 [calls |-> <<>>, yield |-> HandleErr("Request dropped by interceptor")]
           [] ir.tag = "Continue" ->
                 [calls |-> <<ir.request>>, yield |-> HandleOk(Handler(ir.request))]
           [] ir.tag = "Error" -> [calls |-> <<>>, yield |-> HandleOk(into_response(ir.error))]

\* handle with a slip: Drop answers with an error response.
handle_DropResponds(opt, ir, request) ==
    IF opt = "None"
    THEN [calls |-> <<request>>, yield |-> HandleOk(Handler(request))]
    ELSE CASE ir.tag = "Return" -> [calls |-> <<>>, yield |-> HandleOk(ir.response)]
           [] ir.tag = "Drop" -> [calls |-> <<>>, yield |-> HandleOk(into_response(0))]
           [] ir.tag = "Continue" ->
                 [calls |-> <<ir.request>>, yield |-> HandleOk(Handler(ir.request))]
           [] ir.tag = "Error" -> [calls |-> <<>>, yield |-> HandleOk(into_response(ir.error))]

\* handle with a slip: Error is returned as the Err of handle.
handle_ErrorFailsRequest(opt, ir, request) ==
    IF opt = "None"
    THEN [calls |-> <<request>>, yield |-> HandleOk(Handler(request))]
    ELSE CASE ir.tag = "Return" -> [calls |-> <<>>, yield |-> HandleOk(ir.response)]
           [] ir.tag = "Drop" ->
                 [calls |-> <<>>, yield |-> HandleErr("Request dropped by interceptor")]
           [] ir.tag = "Continue" ->
                 [calls |-> <<ir.request>>, yield |-> HandleOk(Handler(ir.request))]
           [] ir.tag = "Error" -> [calls |-> <<>>, yield |-> HandleErr("interceptor error")]

\* handle(request, addr, app, interceptor) given what intercept returned
\* (lib.rs:324-341): the requests the application handler is called with,
\* in order, and the Result handle yields.  app.oneshot cannot fail (the
\* Router's error is Infallible), so its map_err never applies.
handle(opt, ir, request) ==
    IF opt = "None"
    THEN [calls |-> <<request>>, yield |-> HandleOk(Handler(request))]
    ELSE CASE ir.tag = "Return" -> [calls |-> <<>>, yield |-> HandleOk(ir.response)]
           [] ir.tag = "Drop" ->
                 [calls |-> <<>>, yield |-> HandleErr("Request dropped by interceptor")]
           [] ir.tag = "Continue" ->
                 [calls |-> <<ir.request>>, yield |-> HandleOk(Handler(ir.request))]
           [] ir.tag = "Error" -> [calls |-> <<>>, yield |-> HandleOk(into_response(ir.error))]

\* What the hyper connection (lib.rs:378) writes for a request whose
\* service future yielded y: the response, or nothing for an Err.
Sent(y) == IF y.ok THEN y.response ELSE NoResponse

\* What becomes of the connection: an Err of the service ends an HTTP/1
\* connection; on HTTP/2 it resets the request's stream only.
ConnAfter(c, y, h2) == IF y.ok \/ h2 THEN c ELSE "aborted"

\* One request arrives on the connection and is handled.
Request ==
    /\ conn = "open"
    /\ Len(handled) < MaxRequests
    /\ \E request \in Requests :
       \E ir \in (IF interceptor = "None" THEN {NotIntercepted} ELSE InterceptResults) :
          LET h == handle(interceptor, ir, request) IN
          /\ handled' = Append(handled, [request |-> request,
                                         intercept |-> ir,
                                         calls |-> h.calls,
                                         yield |-> h.yield,
                                         sent |-> Sent(h.yield)])
          /\ conn' = ConnAfter(conn, h.yield, http2)
    /\ UNCHANGED <<interceptor, http2>>
    /\ UNCHANGED ioVars
    /\ UNCHANGED tlsVars
    /\ UNCHANGED srvVars
    /\ UNCHANGED extVars

\* A connection just accepted, of a server with or without an interceptor.
InitHandle ==
    /\ interceptor \in {"None", "Some"}
    /\ http2 \in BOOLEAN
    /\ conn = "open"
    /\ handled = <<>>
    /\ NoTlsServer
    /\ NoTimeoutIO
    /\ NoBuilder
    /\ NoSignal
    /\ NoUtil

NextHandle == Request

SpecHandle == InitHandle /\ [][NextHandle]_vars

\* ===================================================== properties of handle
\* A step in which a request was handled, and the record of that request.
RequestStep == Len(handled') = Len(handled) + 1

LastRequest == handled[Len(handled)]

\* C17: for every request handled without an interceptor or for which the
\* interceptor returned Continue, the application handler was called
\* exactly once: with the request itself when there is no interceptor, with
\* the request the interceptor returned otherwise; handle yields Ok with the
\* handler's response to that call, and that response is sent.
C17_ContinueRunsHandlerOnce ==
    \A k \in 1..Len(handled) :
        LET r == handled[k] IN
        /\ interceptor = "None" => r.intercept = NotIntercepted
        /\ r.intercept.tag \in {"None", "Continue"}
              => /\ Len(r.calls) = 1
                 /\ r.calls[1] = (IF r.intercept.tag = "Continue"
                                   THEN r.intercept.request ELSE r.request)
                 /\ r.yield = HandleOk(Handler(r.calls[1]))
                 /\ r.sent = Handler(r.calls[1])

\* C17 witness: the interceptor replaced request 1 by request 2, and the
\* handler answered request 2; the next request went through unchanged.
C17_Witness ==
    /\ interceptor = "Some"
    /\ Len(handled) = 2
    /\ handled[1].request = 1
    /\ handled[1].intercept = Continue(2)
    /\ handled[1].sent = Handler(2)
    /\ handled[2].intercept = Continue(handled[2].request)
    /\ handled[2].calls = <<handled[2].request>>

\* C18: for every request for which the interceptor returned
\* Return(response), handle yields Ok with exactly that response, that
\* response is sent, and the application handler was not called.
C18_ReturnBypassesHandler ==
    \A k \in 1..Len(handled) :
        LET r == handled[k] IN
        r.intercept.tag = "Return"
           => /\ r.calls = <<>>
              /\ r.yield = HandleOk(r.intercept.response)
              /\ r.sent = r.intercept.response

\* C18 witness: a request answered 403 by the interceptor, none reached the
\* handler.
C18_Witness ==
    /\ Len(handled) >= 1
    /\ LastRequest.intercept.tag = "Return"
    /\ LastRequest.sent.status = 403
    /\ \A k \in 1..Len(handled) : handled[k].calls = <<>>

\* C19 as stated: for every request for which the interceptor returned
\* Drop, handle yields an Err, the handler was not called, no response is
\* sent and the connection is aborted.
C19_DropAbortsConnection ==
    \A k \in 1..Len(handled) :
        LET r == handled[k] IN
        r.intercept.tag = "Drop"
           => /\ ~r.yield.ok
              /\ r.calls = <<>>
              /\ r.sent = NoResponse
              /\ conn = "aborted"

\* C19 amended: for every request for which the interceptor returned Drop,
\* handle yields an Err, the handler was not called and no response is
\* sent; an HTTP/1 connection is aborted by it, an HTTP/2 connection stays
\* open (only the request fails).
C19_DropFailsRequest ==
    /\ \A k \in 1..Len(handled) :
          LET r == handled[k] IN
          r.intercept.tag = "Drop"
             => /\ r.yield = HandleErr("Request dropped by interceptor")
                /\ r.calls = <<>>
                /\ r.sent = NoResponse
                /\ conn = (IF http2 THEN "open" ELSE "aborted")
    /\ conn = "aborted" => LastRequest.intercept.tag = "Drop"

\* C19 witness: on an HTTP/2 connection a request was dropped and a later
\* request was answered by the handler.
C19_Witness ==
    /\ http2
    /\ Len(handled) = 2
    /\ handled[1].intercept = Drop
    /\ handled[1].sent = NoResponse
    /\ handled[2].sent = Handler(handled[2].request)
    /\ conn = "open"

\* C20: for every request for which the interceptor returned Error(err),
\* handle yields Ok with err converted to a response (status 500), which is
\* sent; the handler was not called, and the connection is as open after
\* the request as before.
C20_ErrorBecomesResponse ==
    /\ [](\A k \in 1..Len(handled) :
             LET r == handled[k] IN
             r.intercept.tag = "Error"
                => /\ r.yield = HandleOk(into_response(r.intercept.error))
                   /\ r.yield.response.status = 500
                   /\ r.sent = r.yield.response
                   /\ r.calls = <<>>)
    /\ [][(RequestStep /\ LastRequest'.intercept.tag = "Error")
             => (conn = "open" /\ conn' = "open")]_vars

\* C20 witness: on an HTTP/1 connection a request was answered with the
\* interceptor's error, and the next request reached the handler.
C20_Witness ==
    /\ ~http2
    /\ Len(handled) = 2
    /\ handled[1].intercept.tag = "Error"
    /\ handled[1].sent.status = 500
    /\ handled[2].calls = <<handled[2].request>>
    /\ conn = "open"


\* ---------------------------------------------------------------------
\* Claims about run() and the builder
\* ---------------------------------------------------------------------

\* Which accept loop run() is in.
RunningLoop ==
    IF pc = "idle" \/ result = "Err" THEN "none"
    ELSE IF useTls THEN "serve_tls" ELSE "serve_plantext"

\* C21: run() enters one accept loop: serve_tls if and only if tls_param is
\* Some and its tls flag is true, serve_plantext otherwise (also when
\* tls_param is Some with the flag false). The loop entered is never left
\* for the other one, and TLS streams exist only under serve_tls.
C21_OneLoopByTlsFlag ==
    /\ [](RunningLoop # "none" =>
            (RunningLoop = "serve_tls"
                <=> (server.tls_param.some /\ server.tls_param.tls)))
    /\ [](RunningLoop = "serve_plantext" => streams = <<>>)
    /\ [][RunningLoop # "none" => RunningLoop' = RunningLoop]_vars

\* tls_param is Some with the flag false, and the plaintext loop has
\* accepted a connection.
C21_Witness ==
    /\ server.tls_param = SomeTlsParam(FALSE)
    /\ RunningLoop = "serve_plantext"
    /\ pc = "select"
    /\ Len(tasks) > 0

\* C22: when binding the listener or loading the initial certificate and
\* key fails, run() returns the error: it has accepted no connection, it
\* accepts none afterwards, and it does not try to start again.
C22_StartFailureIsFinal ==
    /\ [](result = "Err" =>
            /\ pc = "done"
            /\ tasks = <<>> /\ streams = <<>>
            /\ ~acceptor.live
            /\ ~ENABLED Run_Start /\ ~ENABLED Run_StartFails
            /\ ~ENABLED Loop_AcceptOk)
    /\ [][result = "Err" => result' = "Err"]_vars
    /\ [][(result = "none" /\ result' = "Err") =>
            lastEvent' \in {"bind_failed", "tls_config_failed"}]_vars

\* The certificate of a TLS server could not be loaded.
C22_Witness ==
    /\ result = "Err"
    /\ useTls
    /\ lastEvent = "tls_config_failed"
    /\ now > 0


\* ---------------------------------------------------------------------
\* The shutdown channel (lib.rs:572-619) and the accept loops behind it
\* ---------------------------------------------------------------------

\* How many accept loops share one shutdown channel.
MaxLoops == 2

\* Every Sender is gone: the signal task has ended (its Sender was moved
\* into it, lib.rs:585) and the caller holds no clone.
Closed == signalTask # "waiting" /\ ~userTx

\* Receiver::recv with a slip: only the first receiver is handed the value.
Recv_Unicast(rx, ch, closed) ==
    IF rx.next < ch.pos /\ rx.id = 1 THEN "Ok"
    ELSE IF closed THEN "Closed"
    ELSE "Pending"

\* Receiver::recv of tokio's broadcast channel: a value sent after the
\* receiver was subscribed is handed to it, whatever the other receivers
\* did; when more values were sent than the one slot holds (lib.rs:573) it
\* yields Lagged; with no value left and every Sender dropped it yields
\* Closed.
Recv(rx, ch, closed) ==
    IF ch.pos - rx.next > 1 THEN "Lagged"
    ELSE IF rx.next < ch.pos THEN "Ok"
    ELSE IF closed THEN "Closed"
    ELSE "Pending"

\* Which results of shutdown_rx.recv() make select! take the shutdown
\* branch, with a slip: the pattern is Ok(_) and an Err disables the branch.
ShutdownBranchTakes_OkOnly(r) == r = "Ok"

\* Which results of shutdown_rx.recv() make select! take the shutdown
\* branch: the pattern is `_` (lib.rs:447, lib.rs:515), every result does.
ShutdownBranchTakes(r) == r # "Pending"

\* Sender::subscribe / Receiver::resubscribe: the new receiver sees the
\* values sent from now on. Its Server has not been run yet.
NewLoop(id, ch) ==
    [id |-> id, next |-> ch.pos, state |-> "idle", accepted |-> 0, saw |-> "none"]

\* The caller makes one more receiver: from a Sender it kept, or from a
\* receiver it has not yet given away to run().
Subscribe ==
    /\ Len(loops) < MaxLoops
    /\ userTx \/ \E i \in 1..Len(loops) : loops[i].state = "idle"
    /\ loops' = Append(loops, NewLoop(Len(loops) + 1, shutdownChan))
    /\ UNCHANGED <<signalTask, userTx, shutdownChan>>
    /\ UNCHANGED cfgVars
    /\ UNCHANGED utilVars
    /\ UNCHANGED ioVars
    /\ UNCHANGED tlsVars
    /\ UNCHANGED srvVars
    /\ UNCHANGED reqVars

\* The caller drops its clone of the Sender.
UserDropsTx ==
    /\ userTx
    /\ userTx' = FALSE
    /\ UNCHANGED <<signalTask, shutdownChan, loops>>
    /\ UNCHANGED cfgVars
    /\ UNCHANGED utilVars
    /\ UNCHANGED ioVars
    /\ UNCHANGED tlsVars
    /\ UNCHANGED srvVars
    /\ UNCHANGED reqVars

\* wait_signal returns Ok (lib.rs:587-589): () is sent, the task ends and
\* its Sender is dropped.
Signal_Ok ==
    /\ signalTask = "waiting"
    /\ signalTask' = "sent"
    /\ shutdownChan' = [pos |-> shutdownChan.pos + 1]
    /\ UNCHANGED <<userTx, loops>>
    /\ UNCHANGED cfgVars
    /\ UNCHANGED utilVars
    /\ UNCHANGED ioVars
    /\ UNCHANGED tlsVars
    /\ UNCHANGED srvVars
    /\ UNCHANGED reqVars

\* wait_signal returns Err (lib.rs:591-594, lib.rs:609): the task logs and
\* panics. The panic unwinds the spawned task only: its Sender is dropped,
\* nothing is sent, and the runtime keeps the other tasks running.
Signal_Err ==
    /\ signalTask = "waiting"
    /\ signalTask' = "panicked"
    /\ UNCHANGED <<userTx, shutdownChan, loops>>
    /\ UNCHANGED cfgVars
    /\ UNCHANGED utilVars
    /\ UNCHANGED ioVars
    /\ UNCHANGED tlsVars
    /\ UNCHANGED srvVars
    /\ UNCHANGED reqVars

\* run() is called on the Server that owns receiver i.
Loop_Run(i) ==
    /\ i \in 1..Len(loops)
    /\ loops[i].state = "idle"
    /\ loops' = [loops EXCEPT ![i].state = "running"]
    /\ UNCHANGED <<signalTask, userTx, shutdownChan>>
    /\ UNCHANGED cfgVars
    /\ UNCHANGED utilVars
    /\ UNCHANGED ioVars
    /\ UNCHANGED tlsVars
    /\ UNCHANGED srvVars
    /\ UNCHANGED reqVars

\* select! of loop i takes the accept branch (lib.rs:454, lib.rs:541).
Loop_Accept(i) ==
    /\ i \in 1..Len(loops)
    /\ loops[i].state = "running"
    /\ loops[i].accepted < MaxConns
    /\ loops' = [loops EXCEPT ![i].accepted = @ + 1]
    /\ UNCHANGED <<signalTask, userTx, shutdownChan>>
    /\ UNCHANGED cfgVars
    /\ UNCHANGED utilVars
    /\ UNCHANGED ioVars
    /\ UNCHANGED tlsVars
    /\ UNCHANGED srvVars
    /\ UNCHANGED reqVars

\* select! of loop i takes `_ = shutdown_rx.recv()` (lib.rs:447, lib.rs:515),
\* whatever recv yielded: the listener is dropped and the drain starts.
Loop_Recv(i) ==
    /\ i \in 1..Len(loops)
    /\ loops[i].state = "running"
    /\ LET r == Recv(loops[i], shutdownChan, Closed) IN
       /\ ShutdownBranchTakes(r)
       /\ loops' = [loops EXCEPT ![i].state = "draining",
                                 ![i].saw = r,
                                 ![i].next = IF r = "Ok" THEN @ + 1
                                             ELSE IF r = "Lagged" THEN shutdownChan.pos - 1
                                             ELSE @]
    /\ UNCHANGED <<signalTask, userTx, shutdownChan>>
    /\ UNCHANGED cfgVars
    /\ UNCHANGED utilVars
    /\ UNCHANGED ioVars
    /\ UNCHANGED tlsVars
    /\ UNCHANGED srvVars
    /\ UNCHANGED reqVars

\* The bounded wait of loop i is over and its run() returns.
Loop_Drained(i) ==
    /\ i \in 1..Len(loops)
    /\ loops[i].state = "draining"
    /\ loops' = [loops EXCEPT ![i].state = "done"]
    /\ UNCHANGED <<signalTask, userTx, shutdownChan>>
    /\ UNCHANGED cfgVars
    /\ UNCHANGED utilVars
    /\ UNCHANGED ioVars
    /\ UNCHANGED tlsVars
    /\ UNCHANGED srvVars
    /\ UNCHANGED reqVars

\* generate_shutdown_receiver (lib.rs:572-576), or a channel the caller
\* made and handed to subscribe_shutdown_sender keeping a clone of the
\* Sender: one receiver exists and the signal task waits.
InitSignal ==
    /\ signalTask = "waiting"
    /\ userTx \in BOOLEAN
    /\ shutdownChan = [pos |-> 0]
    /\ loops = <<NewLoop(1, shutdownChan)>>
    /\ NoBuilder
    /\ NoUtil
    /\ NoTlsServer
    /\ NoTimeoutIO
    /\ NoRequests

NextSignal ==
    \/ Subscribe
    \/ UserDropsTx
    \/ Signal_Ok
    \/ Signal_Err
    \/ \E i \in 1..MaxLoops : Loop_Run(i)
    \/ \E i \in 1..MaxLoops : Loop_Accept(i)
    \/ \E i \in 1..MaxLoops : Loop_Recv(i)
    \/ \E i \in 1..MaxLoops : Loop_Drained(i)

SpecSignal == InitSignal /\ [][NextSignal]_vars

\* A loop whose recv() is ready takes that branch sooner or later
\* (select! picks among the ready branches at random), and a drain ends.
SpecSignalFair ==
    /\ SpecSignal
    /\ \A i \in 1..MaxLoops : WF_vars(Loop_Recv(i))
    /\ \A i \in 1..MaxLoops : WF_vars(Loop_Drained(i))


\* ---------------------------------------------------------------------
\* Claims about the shutdown channel
\* ---------------------------------------------------------------------

\* Loop i exists and is in its select!.
LoopRunning(i) == i <= Len(loops) /\ loops[i].state = "running"

\* The receiver of loop i was subscribed before the () was sent.
SubscribedBeforeTrigger(i) == i <= Len(loops) /\ loops[i].next < shutdownChan.pos

\* C23: a failure to install the signal handlers is fatal: once wait_signal
\* has returned an error, no accept loop stays in Running.
C23_SignalFailureStopsServing ==
    \A i \in 1..MaxLoops :
        (signalTask = "panicked" /\ LoopRunning(i)) ~> ~LoopRunning(i)

\* C24: one () sent by the signal task reaches every accept loop whose
\* receiver was subscribed before it: such a loop, once running, leaves
\* Running and drains, and what its recv() yielded is the value sent.
C24_TriggerReachesEveryLoop ==
    /\ \A i \in 1..MaxLoops :
          (signalTask = "sent" /\ LoopRunning(i) /\ SubscribedBeforeTrigger(i))
              ~> (i <= Len(loops) /\ loops[i].state \in {"draining", "done"})
    /\ [][\A i \in 1..Len(loops) :
            (LoopRunning(i) /\ SubscribedBeforeTrigger(i) /\ loops'[i].state = "draining")
                => loops'[i].saw = "Ok"]_vars

\* Two loops were subscribed before the trigger, both have seen it; the
\* second one accepted a connection first.
C24_Witness ==
    /\ signalTask = "sent"
    /\ Len(loops) = 2
    /\ \A i \in 1..2 : loops[i].saw = "Ok" /\ loops[i].state \in {"draining", "done"}
    /\ loops[2].accepted > 0


\* ---------------------------------------------------------------------
\* Claims about the wrapping of accepted connections
\* ---------------------------------------------------------------------

\* The client has sent nothing and taken nothing: every poll of the
\* connection so far was Pending.
SilentClient(tr) == \A i \in 1..Len(tr) : tr[i].inner = Pending

MaxSetters == 2

\* A setter has been called with an argument and has returned the Server.
Built(call, arg, s) ==
    /\ Len(setters) < MaxSetters
    /\ server' = s
    /\ setters' = Append(setters, [call |-> call, arg |-> arg])
    /\ UNCHANGED sigVars
    /\ UNCHANGED utilVars
    /\ UNCHANGED ioVars
    /\ UNCHANGED tlsVars
    /\ UNCHANGED srvVars
    /\ UNCHANGED reqVars

Server_with_interceptor ==
    \E r \in Interceptors : Built("with_interceptor", r, with_interceptor(server, r))

Server_with_tls_param ==
    \E tls_param \in TlsParams :
        Built("with_tls_param", tls_param, with_tls_param(server, tls_param))

Server_with_timeout ==
    \E d \in Durations : Built("with_timeout", d, with_timeout(server, d))

\* new_server(port, router, shutdown_rx) has returned.
InitBuild ==
    /\ \E port \in Ports, router \in Routers, shutdown_rx \in Receivers :
          server = new_server(port, router, shutdown_rx)
    /\ setters = <<>>
    /\ NoSignal
    /\ NoUtil
    /\ NoTlsServer
    /\ NoTimeoutIO
    /\ NoRequests

NextBuild ==
    \/ Server_with_interceptor
    \/ Server_with_tls_param
    \/ Server_with_timeout

SpecBuild == InitBuild /\ [][NextBuild]_vars

\* ---------------------------------------------------------------------
\* Claims about the builder
\* ---------------------------------------------------------------------

\* The field a setter is meant to set.
OwnField(call) ==
    CASE call = "with_interceptor" -> "interceptor"
      [] call = "with_tls_param" -> "tls_param"
      [] call = "with_timeout" -> "idle_timeout"

SetterStep == Len(setters') = Len(setters) + 1

\* C26: new_server yields a Server with TLS disabled, no interceptor and an
\* idle timeout of 120 s, holding the port, router and receiver given; each
\* setter sets its own field to its argument and leaves every other field
\* as it was (with_interceptor keeps port, tls_param, router, idle_timeout
\* and the shutdown receiver).
C26_SettersAreIndependent ==
    /\ [](setters = <<>> =>
            /\ ~use_tls(server.tls_param) /\ ~server.tls_param.some
            /\ server.interceptor = "None"
            /\ server.idle_timeout = 120)
    /\ [][SetterStep =>
            LET c == setters'[Len(setters')] IN
            /\ server'[OwnField(c.call)] = c.arg
            /\ \A f \in DOMAIN server \ {OwnField(c.call)} : server'[f] = server[f]]_vars

\* with_interceptor was called on a Server whose timeout and TLS
\* parameter had been set.
C26_Witness ==
    /\ Len(setters) = 2
    /\ setters[1].call = "with_timeout"
    /\ setters[2].call = "with_interceptor"
    /\ server.idle_timeout = 1
    /\ server.interceptor = "interceptor_b"
    /\ server.port = 8443


\* ---------------------------------------------------------------------
\* The peer address of a connection (lib.rs:360-419, format.rs:25-29)
\* ---------------------------------------------------------------------

\* How many hosts and ports the clients come from.
MaxHosts == 2

\* How many uses of the address are followed.
MaxObserved == 2

\* What accept() of the dual-stack listener (io.rs:40-60: an IPv6 socket
\* with only_v6 off) yields: IPv6 peers as they are, IPv4 peers mapped.
AcceptedAddrs ==
    {[ip |-> ip, port |-> port] :
        ip \in {V6(a) : a \in 1..MaxHosts} \cup {V6Mapped(a) : a \in 1..MaxHosts},
        port \in 1..MaxHosts}

\* IpAddr::to_canonical: an IPv4-mapped IPv6 address becomes the IPv4
\* address, any other address is returned as it is.
to_canonical(ip) == IF ip.v = 6 /\ ip.mapped THEN V4(ip.a) ELSE ip

\* SocketAddrFormat with a slip: the address is written as it is.
SocketAddrFormat_Raw(addr) == [ip |-> addr.ip, port |-> addr.port]

\* Display of SocketAddrFormat (format.rs:25-29): "{ip canonical} {port}".
SocketAddrFormat(addr) == [ip |-> to_canonical(addr.ip), port |-> addr.port]

\* Display of SocketAddr, as in "dropped: {client_socket_addr}".
Display(addr) == [ip |-> addr.ip, port |-> addr.port]

\* The address has gone somewhere.
Observe(by, seen) ==
    /\ Len(observed) < MaxObserved
    /\ observed' = Append(observed, [by |-> by, seen |-> seen])
    /\ UNCHANGED <<peer, extracted, authed>>
    /\ UNCHANGED cfgVars
    /\ UNCHANGED sigVars
    /\ UNCHANGED ioVars
    /\ UNCHANGED tlsVars
    /\ UNCHANGED srvVars
    /\ UNCHANGED reqVars

\* handle passes client_socket_addr to interceptor.intercept (lib.rs:325).
Peer_Intercept == Observe("interceptor", peer)

\* app.call(client_socket_addr) makes it the handler's ConnectInfo (lib.rs:372).
Peer_ConnectInfo == Observe("connect_info", peer)

\* handle_hyper_error writes it with SocketAddrFormat (lib.rs:407-415).
Peer_ErrorLog == Observe("error_log", SocketAddrFormat(peer))

\* The task's last line: log::debug!("dropped: {client_socket_addr}") (lib.rs:385).
Peer_DroppedLog == Observe("dropped_log", Display(peer))

\* A connection has been accepted from some client.
InitPeer ==
    /\ peer \in AcceptedAddrs
    /\ observed = <<>>
    /\ NoHost
    /\ NoJwt
    /\ NoBuilder
    /\ NoSignal
    /\ NoTlsServer
    /\ NoTimeoutIO
    /\ NoRequests

NextPeer ==
    \/ Peer_Intercept
    \/ Peer_ConnectInfo
    \/ Peer_ErrorLog
    \/ Peer_DroppedLog

SpecPeer == InitPeer /\ [][NextPeer]_vars

\* ---------------------------------------------------------------------
\* Claims about the peer address
\* ---------------------------------------------------------------------

\* An address in IPv4-mapped IPv6 form.
IsMapped(addr) == addr.ip.v = 6 /\ addr.ip.mapped

\* C27 as stated: wherever the peer address of a connection is observed
\* (interceptor, connection metadata of the handler, logs), an IPv4-mapped
\* IPv6 address appears as the plain IPv4 address.
C27_ObservedAddressesAreNormalized ==
    \A i \in 1..Len(observed) : ~IsMapped(observed[i].seen)

\* C27, amended: the connection-error log lines write the address with an
\* IPv4-mapped form turned into plain IPv4 (and any other address, and the
\* port, unchanged); the interceptor, the handler's ConnectInfo and the
\* "dropped" log line get the address exactly as accept returned it.
C27_OnlyErrorLogsNormalize ==
    \A i \in 1..Len(observed) :
        IF observed[i].by = "error_log"
        THEN /\ observed[i].seen.port = peer.port
             /\ observed[i].seen.ip =
                    (IF IsMapped(peer) THEN V4(peer.ip.a) ELSE peer.ip)
        ELSE observed[i].seen = peer

\* An IPv4 client: the interceptor got the mapped form, the error log
\* wrote the IPv4 form.
C27_Witness ==
    /\ IsMapped(peer)
    /\ Len(observed) = 2
    /\ observed[1].by = "interceptor" /\ observed[1].seen.ip = V6Mapped(2)
    /\ observed[2].by = "error_log" /\ observed[2].seen.ip = V4(2)


\* ---------------------------------------------------------------------
\* The Host extractor (extractor.rs:69-94)
\* ---------------------------------------------------------------------

\* How many host names the requests mention.
MaxNames == 2

\* How many requests are given to the extractor.
MaxExtracts == 2

Names == 1..MaxNames

\* parts.headers.get("host"): absent, a value that to_str() accepts
\* (visible ASCII), or a value that to_str() rejects.
NoHeader == [present |-> FALSE, valid |-> FALSE, value |-> 0]

HeaderValues ==
    {NoHeader, [present |-> TRUE, valid |-> FALSE, value |-> 0]}
        \cup {[present |-> TRUE, valid |-> TRUE, value |-> n] : n \in Names}

\* parts.uri.authority(): None for an origin-form URI such as "/test".
NoAuthority == [present |-> FALSE, value |-> 0]

Authorities == {NoAuthority} \cup {[present |-> TRUE, value |-> n] : n \in Names}

\* The request parts the extractor looks at.
Parts == {[host |-> h, authority |-> a] : h \in HeaderValues, a \in Authorities}

OkHost(name) == [ok |-> TRUE, host |-> name, error |-> ""]

ErrHost(e) == [ok |-> FALSE, host |-> 0, error |-> e]

\* from_request_parts with a slip: the URI authority is not looked at.
from_request_parts_HeaderOnly(parts) ==
    IF parts.host.present /\ parts.host.valid
    THEN OkHost(parts.host.value)
    ELSE ErrHost("Missing Host information in request")

\* Host::from_request_parts (extractor.rs:75-93): the Host header first,
\* if it is there and to_str() accepts it; else the URI authority; else
\* the rejection.
from_request_parts(parts) ==
    IF parts.host.present /\ parts.host.valid
    THEN OkHost(parts.host.value)
    ELSE IF parts.authority.present
    THEN OkHost(parts.authority.value)
    ELSE ErrHost("Missing Host information in request")

\* A handler asks for Host on some request.
Extract ==
    /\ Len(extracted) < MaxExtracts
    /\ \E parts \in Parts :
          extracted' = Append(extracted, [parts |-> parts,
                                          result |-> from_request_parts(parts)])
    /\ UNCHANGED <<peer, observed, authed>>
    /\ UNCHANGED cfgVars
    /\ UNCHANGED sigVars
    /\ UNCHANGED ioVars
    /\ UNCHANGED tlsVars
    /\ UNCHANGED srvVars
    /\ UNCHANGED reqVars

InitHost ==
    /\ extracted = <<>>
    /\ NoPeer
    /\ NoJwt
    /\ NoBuilder
    /\ NoSignal
    /\ NoTlsServer
    /\ NoTimeoutIO
    /\ NoRequests

NextHost == Extract

SpecHost == InitHost /\ [][NextHost]_vars

\* ---------------------------------------------------------------------
\* Claims about the Host extractor
\* ---------------------------------------------------------------------

\* C28: when a request has both a URI authority and a Host header, the
\* Host extractor returns the URI authority.
C28_AuthorityTakesPrecedence ==
    \A i \in 1..Len(extracted) :
        LET e == extracted[i] IN
        (e.parts.host.present /\ e.parts.authority.present)
            => e.result = OkHost(e.parts.authority.value)

\* The header is usable: present, and to_str() accepts it.
UsableHeader(parts) == parts.host.present /\ parts.host.valid

\* C29: the Host extractor fails if and only if the request has neither a
\* usable Host header nor a URI authority; with a usable Host header and no
\* authority it returns the header value, and with an authority and no
\* Host header it returns the authority.
C29_FailsOnlyWithoutHost ==
    \A i \in 1..Len(extracted) :
        LET e == extracted[i] IN
        /\ ~e.result.ok <=> (~UsableHeader(e.parts) /\ ~e.parts.authority.present)
        /\ (UsableHeader(e.parts) /\ ~e.parts.authority.present)
              => e.result = OkHost(e.parts.host.value)
        /\ (~e.parts.host.present /\ e.parts.authority.present)
              => e.result = OkHost(e.parts.authority.value)

\* One request with only an authority, answered with it, and one with an
\* unusable header and no authority, rejected.
C29_Witness ==
    /\ Len(extracted) = 2
    /\ extracted[1].parts = [host |-> NoHeader, authority |-> [present |-> TRUE, value |-> 2]]
    /\ extracted[1].result = OkHost(2)
    /\ extracted[2].parts.host.present /\ ~extracted[2].parts.host.valid
    /\ ~extracted[2].parts.authority.present
    /\ ~extracted[2].result.ok


\* ---------------------------------------------------------------------
\* The JWT middleware (jwt.rs:237-339)
\* ---------------------------------------------------------------------

\* How many requests go through the middleware.
MaxAuthed == 2

\* What a token's claims carry (the T of Claims<T>).
Payloads == 1..MaxNames

\* cookie_jar.get(AXUM_BOOTSTRAP_TOKEN): None, or the cookie's value: a
\* string that is or is not a well-formed JWT, signed or not with the
\* configured key, with an `exp` that Validation::default() accepts or not.
NoCookie == [present |-> FALSE, wellformed |-> FALSE, keyOk |-> FALSE, expired |-> FALSE, payload |-> 0]

Cookies ==
    {NoCookie} \cup
    {[present |-> TRUE, wellformed |-> w, keyOk |-> k, expired |-> x, payload |-> p] :
        w \in BOOLEAN, k \in BOOLEAN, x \in BOOLEAN, p \in Payloads}

\* Request extensions: no Claims, or the Claims inserted.
NoClaims == [some |-> FALSE, payload |-> 0]

SomeClaims(p) == [some |-> TRUE, payload |-> p]

\* Claims::decode with a slip: `exp` is not validated.
decode_IgnoresExpiry(token) ==
    IF token.wellformed /\ token.keyOk
    THEN [ok |-> TRUE, claims |-> SomeClaims(token.payload)]
    ELSE [ok |-> FALSE, claims |-> NoClaims]

\* Claims::decode (jwt.rs:237-244): jsonwebtoken's decode with
\* Validation::default(), which checks the signature and `exp`.
decode(token) ==
    IF token.wellformed /\ token.keyOk /\ ~token.expired
    THEN [ok |-> TRUE, claims |-> SomeClaims(token.payload)]
    ELSE [ok |-> FALSE, claims |-> NoClaims]

\* The (StatusCode, Html) rejections and the handler's answer.
Unauthorized(body) == [status |-> 401, body |-> body]

NotRun == [status |-> 0, body |-> "none"]

\* impl FromRequestParts for Claims<T> (jwt.rs:323-339), as the handler
\* behind the middleware uses it.
Claims_from_request_parts(extensions) ==
    IF extensions.some
    THEN [ok |-> TRUE, claims |-> extensions, rejection |-> NotRun]
    ELSE [ok |-> FALSE, claims |-> NoClaims,
          rejection |-> Unauthorized("Missing or invalid token")]

\* next.run(request): the handler answers, with the claims it extracted.
next_run(extensions) ==
    LET c == Claims_from_request_parts(extensions) IN
    IF c.ok THEN [status |-> 200, body |-> "handler"] ELSE c.rejection

\* jwt_auth_middleware (jwt.rs:285-308): what it returned, whether next
\* was run, and the extensions of the request next was run with.
jwt_auth_middleware(cookie) ==
    IF ~cookie.present
    THEN [ran |-> FALSE, extensions |-> NoClaims, response |-> Unauthorized("Missing token")]
    ELSE LET d == decode(cookie) IN
         IF ~d.ok
         THEN [ran |-> FALSE, extensions |-> NoClaims, response |-> Unauthorized("Invalid token")]
         ELSE [ran |-> TRUE, extensions |-> d.claims, response |-> next_run(d.claims)]

\* A request reaches a route behind the middleware.
Authenticate ==
    /\ Len(authed) < MaxAuthed
    /\ \E cookie \in Cookies :
          LET m == jwt_auth_middleware(cookie) IN
          authed' = Append(authed, [cookie |-> cookie,
                                    ran |-> m.ran,
                                    extensions |-> m.extensions,
                                    response |-> m.response])
    /\ UNCHANGED <<peer, observed, extracted>>
    /\ UNCHANGED cfgVars
    /\ UNCHANGED sigVars
    /\ UNCHANGED ioVars
    /\ UNCHANGED tlsVars
    /\ UNCHANGED srvVars
    /\ UNCHANGED reqVars

InitJwt ==
    /\ authed = <<>>
    /\ NoPeer
    /\ NoHost
    /\ NoBuilder
    /\ NoSignal
    /\ NoTlsServer
    /\ NoTimeoutIO
    /\ NoRequests

NextJwt == Authenticate

SpecJwt == InitJwt /\ [][NextJwt]_vars

\* ---------------------------------------------------------------------
\* Claims about the JWT middleware
\* ---------------------------------------------------------------------

\* The token cookie is there and its value decodes and validates.
ValidToken(cookie) ==
    cookie.present /\ cookie.wellformed /\ cookie.keyOk /\ ~cookie.expired

\* C30: the middleware runs the next handler exactly when the token cookie
\* is present and decodes and validates; the handler then runs on a request
\* that carries the claims decoded from that token; with a missing or
\* invalid token the answer is 401 and the next handler is not run.
C30_OnlyValidTokensPass ==
    \A i \in 1..Len(authed) :
        LET a == authed[i] IN
        /\ a.ran <=> ValidToken(a.cookie)
        /\ a.ran => /\ a.extensions = SomeClaims(a.cookie.payload)
                    /\ a.response.status = 200
        /\ ~a.ran => /\ a.response.status = 401
                     /\ a.extensions = NoClaims

\* A token that is well formed and signed but expired was refused, and a
\* valid one let the handler run with its claims.
C30_Witness ==
    /\ Len(authed) = 2
    /\ authed[1].cookie.present /\ authed[1].cookie.wellformed
    /\ authed[1].cookie.keyOk /\ authed[1].cookie.expired
    /\ ~authed[1].ran /\ authed[1].response = Unauthorized("Invalid token")
    /\ authed[2].ran /\ authed[2].extensions = SomeClaims(2)


\* ---------------------------------------------------------------------
\* Claims about the lazy handshake
\* ---------------------------------------------------------------------

\* The operations of TlsStream that drive the handshake.
HandshakeOps == {"poll_read", "poll_write"}

\* C31: accept() runs no handshake: the stream it returns is Handshaking
\* with its handshake future not yet polled to an end. A stream goes from
\* Handshaking to Streaming only in a poll_read or poll_write of that
\* stream, and that poll returns what the first read or write on the
\* established stream returned, never the handshake's error. poll_flush
\* and poll_shutdown of a Handshaking stream return Ready(Ok) and leave it
\* Handshaking.
C31_HandshakeIsLazy ==
    [][/\ AcceptStep =>
            /\ NewStream'.state = "Handshaking"
            /\ NewStream'.accept = "Handshaking"
       /\ \A i \in 1..Len(streams) :
            (streams[i].state = "Handshaking" /\ streams'[i].state = "Streaming")
                => /\ lastCall'.stream = i
                   /\ lastCall'.op \in HandshakeOps
                   /\ lastCall'.ret \in TlsResults
       /\ \A i \in 1..Len(streams) :
            (/\ streams[i].state = "Handshaking"
             /\ lastCall' # lastCall
             /\ lastCall'.stream = i
             /\ lastCall'.op \in {"poll_flush", "poll_shutdown"})
                => /\ lastCall'.ret = Ok(0)
                   /\ streams'[i].state = "Handshaking"]_vars

\* The handshake of the second stream completed in a poll_write whose
\* write failed: the stream is Streaming all the same; the first stream,
\* flushed earlier, is still Handshaking.
C31_Witness ==
    /\ Len(streams) = 2
    /\ streams[1].state = "Handshaking" /\ streams[1].accept = "Handshaking"
    /\ streams[2].state = "Streaming"
    /\ lastCall = [stream |-> 2, op |-> "poll_write", ret |-> Err("ConnectionReset")]

\* ------------------------------------ run() with the reload channel closing
\* A TLS server, the only one with a reload channel (lib.rs:498).
InitRunReload ==
    /\ InitRun
    /\ use_tls(server.tls_param)

\* Accept errors and failing connections are followed in SpecRun.
NextRunReload ==
    \/ Run_Start
    \/ SendShutdown
    \/ Loop_Shutdown
    \/ Loop_RecvClosed
    \/ Loop_AcceptOk
    \/ Task_Handshake
    \/ Task_Ends
    \/ Drain_Graceful
    \/ Drain_Forced
    \/ TimePasses

SpecRunReload == InitRunReload /\ [][NextRunReload]_vars

\* run() is resumed when the future it awaits is ready, and the clock runs.
SpecRunReloadFair ==
    /\ SpecRunReload
    /\ WF_vars(Drain_Graceful)
    /\ WF_vars(Drain_Forced)
    /\ WF_vars(TimePasses)

\* ---------------------------------------------- Claims about leaving the loop

\* C32: whenever run() is waiting for the connections to drain, the
\* listening socket (listener or TLS acceptor) has already been dropped.
C32_ListenerClosedBeforeDrain ==
    ServerState = "Draining" => ~acceptor.live

\* C33: each accepted connection is handled by exactly one spawned task
\* that owns its stream alone.  An accept adds one running task and, on
\* TLS, the one stream of that task; the stream of a connection lives
\* exactly as long as its task runs and only a step of that task changes
\* it, one stream at a time.  The loop does not wait for a task: while it
\* is Running with its listener and room for a connection, accept can be
\* chosen whatever the tasks are doing.
C33_OneTaskOwnsEachStream ==
    /\ [][SpawnStep
             => /\ SubSeq(tasks', 1, Len(tasks)) = tasks
                /\ tasks'[Len(tasks')] = watch(NewTask(acceptFailed))
                /\ useTls => /\ Len(streams') = Len(tasks')
                             /\ SubSeq(streams', 1, Len(streams)) = streams]_vars
    /\ [](useTls => /\ Len(streams) = Len(tasks)
                    /\ \A i \in 1..Len(tasks) : streams[i].alive <=> Running(i))
    /\ [][\A i \in 1..Len(streams) :
             streams'[i] # streams[i]
                 => /\ Running(i)
                    /\ \A j \in 1..Len(streams) \ {i} :
                          streams'[j] = streams[j] /\ tasks'[j] = tasks[j]]_vars
    /\ []((ServerState = "Running" /\ acceptor.live /\ Len(tasks) < MaxConns)
             => ENABLED Loop_AcceptOk)

\* C33 witness: on TLS, a second connection has been accepted while the
\* task of the first is still running, and each task has its own stream.
C33_Witness ==
    /\ useTls
    /\ Len(tasks) = 2
    /\ Running(1)
    /\ Running(2)
    /\ lastEvent = "accepted"
    /\ streams[1].alive
    /\ streams[2].alive

\* C34: in the TLS accept loop no event source blocks another.  Whenever
\* the loop is in select!, whatever connections it has accepted and
\* however their handshakes stand: a sent shutdown signal can be observed,
\* a published config can be received and applied, and a further
\* connection can be accepted.  None of this needs a connection to arrive
\* or a handshake to move.
C34_SourcesDoNotBlock ==
    /\ []((pc = "select" /\ shutdownSent) => ENABLED SelectShutdown)
    /\ []((pc = "select" /\ chan.pos - rxNext = 1) => ENABLED SelectRecvOk)
    /\ []((pc = "select" /\ chan.pos - rxNext > 1) => ENABLED SelectRecvLagged)
    /\ []((pc = "select" /\ Len(streams) < MaxConns) => ENABLED SelectAcceptOk)

\* C34 witness: a connection was accepted under the initial config and its
\* handshake has not moved; since then the loop has applied a published
\* config, and with the shutdown signal sent and room for a connection
\* it can still take any branch.
C34_Witness ==
    /\ pc = "select"
    /\ Len(streams) = 1
    /\ streams[1].alive
    /\ streams[1].state = "Handshaking"
    /\ streams[1].config = InitialConfig
    /\ acceptor.config # InitialConfig
    /\ lastEvent = "replaced"
    /\ shutdownSent
    /\ Len(streams) < MaxConns

\* C35: when the configuration channel is reported closed the TLS accept
\* loop exits.  The step leaves Running for Draining and starts the grace
\* period; from then on accept is never chosen again, neither with Ok nor
\* with Err, and run() eventually returns Ok(()), at the latest when the
\* grace period has elapsed.
C35_ClosedReloadChannelEndsLoop ==
    /\ [][Loop_RecvClosed
             => /\ ServerState = "Running"
                /\ ServerState' = "Draining"
                /\ drainDeadline' = now + GRACEFUL_SHUTDOWN_TIMEOUT
                /\ tasks' = tasks]_vars
    /\ [](lastTick = "ended"
             => /\ ServerState \in {"Draining", "Terminated"}
                /\ ~ENABLED Loop_AcceptOk
                /\ ~ENABLED Loop_AcceptErr
                /\ now <= drainDeadline)
    /\ (lastTick = "ended") ~> (ServerState = "Terminated" /\ result = "Ok")

\* C35 witness: the channel was found closed while a connection was being
\* served and no shutdown signal had been sent; run() has returned Ok(())
\* after the grace period, the connection still running.
C35_Witness ==
    /\ lastTick = "ended"
    /\ ~shutdownSent
    /\ ServerState = "Terminated"
    /\ result = "Ok"
    /\ lastEvent = "drain_timeout"
    /\ Len(tasks) = 1
    /\ Running(1)

\* ------------------------------- TimeoutIO over an accepted connection
\* handle_connection wraps what the loop accepted (lib.rs:367): a TcpStream
\* or a TlsStream still Handshaking.  One poll of the wrapped stream gives
\* <<the TlsStream afterwards, the value returned, whether the transport
\* below completed an operation>>.  A handshaking TlsStream answers
\* poll_flush and poll_shutdown with Ready(Ok(())) without touching the
\* transport (tls.rs:253-265); every other poll drives it.
InnerOutcomes(op) ==
    IF ~useTls
    THEN {<<0, r, r.ready>> : r \in InnerResults}
    ELSE IF op \in HandshakeOps
    THEN {<<o[1], o[2], o[2].ready>> : o \in ReadWriteOutcomes(streams[1])}
    ELSE IF streams[1].state = "Streaming"
    THEN {<<[streams[1] EXCEPT !.state = StateAfterFlush(@)], r, r.ready>> : r \in TlsResults}
    ELSE {<<[streams[1] EXCEPT !.state = StateAfterFlush(@)], Ok(0), FALSE>>}

\* One poll of the TimeoutIO by the connection's task; a stream whose
\* handshake failed is not polled again, its task has ended.
Conn_Poll(op) ==
    /\ Len(trace) < MaxOps
    /\ useTls => (streams[1].state = "Streaming" \/ streams[1].accept # "End")
    /\ \E o \in InnerOutcomes(op) :
          /\ deadline' = PollDeadline(o[2], deadline, now, timeout)
          /\ trace' = Append(trace, [inner |-> o[2],
                                     ret |-> PollReturn(op, o[2], deadline, now),
                                     late |-> SleepReady(deadline, now),
                                     io |-> o[3]])
          /\ lastProgress' = IF o[3] THEN now ELSE lastProgress
          /\ streams' = IF useTls THEN <<o[1]>> ELSE streams
          /\ lastCall' = [stream |-> Len(streams), op |-> op, ret |-> o[2]]
    /\ lastOp' = op
    /\ UNCHANGED <<now, timeout, steady>>
    /\ UNCHANGED <<pc, acceptor, chan, rxNext, ticks, lastTick, replaced, shutdownSent, lastEvent>>
    /\ UNCHANGED srvVars
    /\ UNCHANGED reqVars
    /\ UNCHANGED extVars

Conn_poll_read == Conn_Poll("poll_read")

Conn_poll_write == Conn_Poll("poll_write")

Conn_poll_flush == Conn_Poll("poll_flush")

Conn_poll_shutdown == Conn_Poll("poll_shutdown")

\* A connection has just been accepted and wrapped at clock 0, plaintext
\* or TLS; nothing has been read from or written to it.
InitConn ==
    /\ now = 0
    /\ \E d \in 1..MaxTimeout :
          server = with_timeout(new_server(8080, "router_a", "rx_a"), d)
    /\ setters = <<>>
    /\ timeout = TimeoutIO_new(server.idle_timeout, now).timeout
    /\ deadline = TimeoutIO_new(server.idle_timeout, now).deadline
    /\ lastOp = "none"
    /\ trace = <<>>
    /\ lastProgress = 0
    /\ steady = TRUE
    /\ useTls \in BOOLEAN
    /\ pc = "select"
    /\ acceptor = [config |-> InitialConfig, live |-> TRUE]
    /\ streams = IF useTls THEN <<accept(acceptor)>> ELSE <<>>
    /\ chan = [pos |-> 0, val |-> InitialConfig]
    /\ rxNext = 0
    /\ ticks = 0
    /\ lastTick = "none"
    /\ replaced = <<>>
    /\ shutdownSent = FALSE
    /\ lastEvent = "accepted"
    /\ lastCall = [stream |-> 0, op |-> "none", ret |-> Pending]
    /\ tasks = <<>>
    /\ acceptFailed = FALSE
    /\ drainDeadline = 0
    /\ result = "none"
    /\ NoRequests
    /\ NoSignal
    /\ NoUtil

NextConn ==
    \/ Conn_poll_read
    \/ Conn_poll_write
    \/ Conn_poll_flush
    \/ Conn_poll_shutdown
    \/ Tick

SpecConn == InitConn /\ [][NextConn]_vars

\* C36: the idle deadline of a connection is extended only by a poll in
\* which the transport made I/O progress, and a connection whose
\* transport has made no progress for the idle timeout is failed by its
\* next pending poll, plaintext or TLS, handshake completed or not.
C36_DeadlineFollowsTransportProgress ==
    [][/\ deadline' # deadline => (PollStep /\ LastPoll'.io)
       /\ (PollStep /\ ~LastPoll'.inner.ready /\ now - lastProgress >= timeout)
             => IsTimedOut(LastPoll'.ret)]_vars

\* --------------------------------- the shutdown channel fed by the caller
\* How many () the caller sends on a channel of its own.
MaxSends == 2

\* The caller made the channel itself, handed a Sender to
\* subscribe_shutdown_sender (lib.rs:584) and sends () on its clone.
UserSends ==
    /\ userTx
    /\ shutdownChan.pos < MaxSends
    /\ shutdownChan' = [pos |-> shutdownChan.pos + 1]
    /\ UNCHANGED <<signalTask, userTx, loops>>
    /\ UNCHANGED cfgVars
    /\ UNCHANGED utilVars
    /\ UNCHANGED ioVars
    /\ UNCHANGED tlsVars
    /\ UNCHANGED srvVars
    /\ UNCHANGED reqVars

NextSignalSends ==
    \/ Subscribe
    \/ UserDropsTx
    \/ UserSends
    \/ Signal_Ok
    \/ Signal_Err
    \/ \E i \in 1..MaxLoops : Loop_Run(i)
    \/ \E i \in 1..MaxLoops : Loop_Accept(i)
    \/ \E i \in 1..MaxLoops : Loop_Recv(i)
    \/ \E i \in 1..MaxLoops : Loop_Drained(i)

SpecSignalSends == InitSignal /\ [][NextSignalSends]_vars

\* What the recv() of loop i yields now.
RecvOf(i) == Recv(loops[i], shutdownChan, Closed)

\* C37: the accept loop starts shutdown whenever its shutdown receiver
\* yields anything.  While a running loop's recv() is ready with Ok,
\* Lagged or Closed the shutdown branch can be taken; a loop leaves
\* Running only by that branch, recording what recv() yielded, and from
\* then on it drains and accepts no more.
C37_AnyRecvResultStartsShutdown ==
    /\ [](\A i \in 1..Len(loops) :
             (LoopRunning(i) /\ RecvOf(i) \in {"Ok", "Lagged", "Closed"})
                 => ENABLED Loop_Recv(i))
    /\ [][\A i \in 1..Len(loops) :
             (LoopRunning(i) /\ loops'[i].state # "running")
                 => /\ loops'[i].state = "draining"
                    /\ loops'[i].saw = RecvOf(i)
                    /\ loops'[i].saw \in {"Ok", "Lagged", "Closed"}]_vars
    /\ [](\A i \in 1..Len(loops) :
             loops[i].state \in {"draining", "done"} => ~ENABLED Loop_Accept(i))

\* C37 witness: of two loops on one channel, one has left Running on
\* Lagged and the other on Closed.
C37_Witness ==
    /\ Len(loops) = 2
    /\ \E i, j \in 1..2 :
          /\ loops[i].saw = "Lagged"
          /\ loops[j].saw = "Closed"
          /\ loops[i].state \in {"draining", "done"}
          /\ loops[j].state \in {"draining", "done"}

\* ------------------------------------------ Claims about a lagging reload
\* A step in which the loop's rx.recv() returned: Ok or Lagged.
ReceiveStep == rxNext' # rxNext

\* C38 as stated: after the loop has reported a lag, its next receive
\* yields the most recently published config and the acceptor takes it.
C38_NextReceiveAfterLagYieldsLatest ==
    [][(lastEvent = "lagged" /\ ReceiveStep)
          => (replaced' # replaced /\ acceptor'.config = chan.val)]_vars

\* C38 amended: a lag is reported without replacing the config and the
\* loop keeps running, its receiver left one short of the end; the next
\* receive yields the most recently published config unless another one
\* was published in between, in which case it reports a lag again.  A
\* receive that yields a config yields the last one sent.  The acceptor
\* never goes back to an older config, a loop that has caught up with a
\* publishing tick holds that tick's config, and a running loop catches
\* up in the end.
C38_LagIsCaughtUp ==
    /\ [][(ReceiveStep /\ chan.pos - rxNext > 1)
             => /\ lastEvent' = "lagged"
                /\ UNCHANGED <<acceptor, replaced, pc, streams>>
                /\ chan.pos - rxNext' = 1]_vars
    /\ [][(lastEvent = "lagged" /\ ReceiveStep)
             => IF chan.pos - rxNext = 1
                THEN replaced' # replaced /\ acceptor'.config = chan.val
                ELSE lastEvent' = "lagged" /\ acceptor' = acceptor]_vars
    /\ [][replaced' # replaced
             => /\ acceptor'.config = chan.val
                /\ rxNext' = chan.pos
                /\ lastTick = "published" => acceptor'.config = ticks]_vars
    /\ [][acceptor'.config >= acceptor.config]_vars
    /\ []((pc = "select" /\ lastTick = "published" /\ rxNext = chan.pos)
             => acceptor.config = ticks)
    /\ (pc = "select" /\ rxNext < chan.pos) ~> (rxNext = chan.pos \/ pc # "select")

\* C38 witness: two configs were published before the loop received any;
\* the loop reported the lag and then installed the second one, without
\* ever installing the first.
C38_Witness ==
    /\ pc = "select"
    /\ ticks = 2
    /\ chan.pos = 2
    /\ rxNext = 2
    /\ replaced = <<2>>
    /\ acceptor.config = 2
    /\ lastEvent = "replaced"

\* --------------------------------------- Claims about the shared deadline
\* C39: TimeoutIO has one idle deadline for all directions.  A Ready
\* result of any operation moves it to now + timeout, and that is the
\* deadline the next poll of any other operation races against: after a
\* Ready poll of one kind, a pending poll of another kind made within the
\* timeout is answered Pending, and a pending poll yields Timeout exactly
\* when no operation of any kind has completed for the timeout.
C39_OneDeadlineForAllDirections ==
    /\ [][(PollStep /\ LastPoll'.inner.ready) => deadline' = now + timeout]_vars
    /\ [][(PollStep /\ Len(trace) > 0 /\ lastOp' # lastOp
              /\ LastPoll.inner.ready /\ ~LastPoll'.inner.ready)
             => LastPoll'.ret = (IF now - lastProgress < timeout THEN Pending
                                 ELSE TimedOut(lastOp'))]_vars
    /\ [][(PollStep /\ ~LastPoll'.inner.ready)
             => (IsTimedOut(LastPoll'.ret) <=> now - lastProgress >= timeout)]_vars
    /\ [](deadline = lastProgress + timeout)

\* C39 witness: a write completed after the deadline set at wrapping had
\* passed and moved the deadline; time has passed since, and a read
\* polled now races against the deadline the write set, not the old one.
C39_Witness ==
    /\ lastOp = "poll_write"
    /\ LastPoll.inner.ready
    /\ LastPoll.inner.val > 0
    /\ LastPoll.late
    /\ now > lastProgress
    /\ now < deadline
    /\ deadline = lastProgress + timeout
    /\ ENABLED TimeoutIO_poll_read

\* ------------------------------------------ Claims about the drain's scope
\* C40: every accepted connection is watched from the step that accepts
\* it, before its task can run; a step in which the loop leaves select!
\* by another branch takes no connection and loses none; so when the
\* drain is reported as graceful every connection the loop ever accepted
\* has finished, and on TLS every stream accept returned has its task.
C40_GracefulDrainCoversEveryConnection ==
    /\ [][SpawnStep => /\ tasks'[Len(tasks')].watched
                       /\ tasks'[Len(tasks')].status = "running"
                       /\ lastEvent' = "accepted"]_vars
    /\ [](\A i \in 1..Len(tasks) : tasks[i].watched)
    /\ [][(ServerState = "Running" /\ ServerState' # "Running")
             => (tasks' = tasks /\ streams' = streams)]_vars
    /\ [](useTls => Len(streams) = Len(tasks))
    /\ [][(ServerState = "Draining" /\ lastEvent' = "drained")
             => \A i \in 1..Len(tasks) : tasks[i].status = "ended"]_vars
    /\ [](lastEvent = "drained" => \A i \in 1..Len(tasks) : tasks[i].status = "ended")

\* C40 witness: the loop observed the signal while two connections were
\* being served; both finished during the grace period and the drain was
\* reported as graceful.
C40_Witness ==
    /\ lastEvent = "drained"
    /\ result = "Ok"
    /\ shutdownSent
    /\ Len(tasks) = 2
    /\ \A i \in 1..2 : tasks[i].watched /\ tasks[i].status = "ended"
    /\ now > drainDeadline - GRACEFUL_SHUTDOWN_TIMEOUT
    /\ now < drainDeadline

====
